---- MODULE Spec2Model ----
(***************************************************************************)
(* A model of remill's SLEIGH p-code lifter (lib/BC/SleighLifter.cpp).     *)
(*                                                                         *)
(* One instruction lift is modelled as: LiftIntoBlockWithSleighState       *)
(* (validity check), LiftIntoInternalBlockWithSleighState (context reset,  *)
(* decode, float screen, function and exit block creation, construction of *)
(* the PcodeToLLVMEmitIntoBlock object), one `dump` callback per decoded   *)
(* p-code op, the final TerminateBlock and return, and the caller's        *)
(* epilogue.  The emitted LLVM IR is kept structurally: a function is a    *)
(* sequence of basic blocks, a block a sequence of instruction records.    *)
(***************************************************************************)
EXTENDS Integers, Sequences, FiniteSets, TLC

(***************************************************************************)
(* Bounds of the model.                                                    *)
(***************************************************************************)
\* Longest p-code sequence of an instruction of the control-flow family.
MaxOps == 3
\* Longest p-code sequence of the claim_eq family.
MaxClaimOps == 2

(***************************************************************************)
(* LiftStatus, op codes, varnodes.                                         *)
(***************************************************************************)
kLiftedInstruction == "kLiftedInstruction"
kLiftedInvalidInstruction == "kLiftedInvalidInstruction"
kLiftedUnsupportedInstruction == "kLiftedUnsupportedInstruction"
kLiftedLifterError == "kLiftedLifterError"

\* The numeric values of ghidra's OpCode enumeration (opcodes.hh); isFloatOp
\* compares them as numbers.
OpCode ==
  [CPUI_COPY |-> 1, CPUI_LOAD |-> 2, CPUI_STORE |-> 3, CPUI_BRANCH |-> 4,
   CPUI_CBRANCH |-> 5, CPUI_BRANCHIND |-> 6, CPUI_CALL |-> 7,
   CPUI_CALLIND |-> 8, CPUI_CALLOTHER |-> 9, CPUI_RETURN |-> 10,
   CPUI_INT_EQUAL |-> 11, CPUI_INT_NOTEQUAL |-> 12, CPUI_INT_SLESS |-> 13,
   CPUI_INT_SLESSEQUAL |-> 14, CPUI_INT_LESS |-> 15,
   CPUI_INT_LESSEQUAL |-> 16, CPUI_INT_ZEXT |-> 17, CPUI_INT_SEXT |-> 18,
   CPUI_INT_ADD |-> 19, CPUI_INT_SUB |-> 20, CPUI_INT_CARRY |-> 21,
   CPUI_INT_SCARRY |-> 22, CPUI_INT_SBORROW |-> 23, CPUI_INT_2COMP |-> 24,
   CPUI_INT_NEGATE |-> 25, CPUI_INT_XOR |-> 26, CPUI_INT_AND |-> 27,
   CPUI_INT_OR |-> 28, CPUI_INT_LEFT |-> 29, CPUI_INT_RIGHT |-> 30,
   CPUI_INT_SRIGHT |-> 31, CPUI_INT_MULT |-> 32, CPUI_INT_DIV |-> 33,
   CPUI_INT_SDIV |-> 34, CPUI_INT_REM |-> 35, CPUI_INT_SREM |-> 36,
   CPUI_BOOL_NEGATE |-> 37, CPUI_BOOL_XOR |-> 38, CPUI_BOOL_AND |-> 39,
   CPUI_BOOL_OR |-> 40, CPUI_FLOAT_EQUAL |-> 41, CPUI_FLOAT_NOTEQUAL |-> 42,
   CPUI_FLOAT_LESS |-> 43, CPUI_FLOAT_LESSEQUAL |-> 44, CPUI_FLOAT_NAN |-> 46,
   CPUI_FLOAT_ADD |-> 47, CPUI_FLOAT_DIV |-> 48, CPUI_FLOAT_MULT |-> 49,
   CPUI_FLOAT_SUB |-> 50, CPUI_FLOAT_NEG |-> 51, CPUI_FLOAT_ABS |-> 52,
   CPUI_FLOAT_SQRT |-> 53, CPUI_FLOAT_INT2FLOAT |-> 54,
   CPUI_FLOAT_FLOAT2FLOAT |-> 55, CPUI_FLOAT_TRUNC |-> 56,
   CPUI_FLOAT_CEIL |-> 57, CPUI_FLOAT_FLOOR |-> 58, CPUI_FLOAT_ROUND |-> 59,
   CPUI_MULTIEQUAL |-> 60, CPUI_INDIRECT |-> 61, CPUI_PIECE |-> 62,
   CPUI_SUBPIECE |-> 63, CPUI_CAST |-> 64, CPUI_PTRADD |-> 65,
   CPUI_PTRSUB |-> 66, CPUI_SEGMENTOP |-> 67, CPUI_CPOOLREF |-> 68,
   CPUI_NEW |-> 69, CPUI_INSERT |-> 70, CPUI_EXTRACT |-> 71,
   CPUI_POPCOUNT |-> 72]

\* A varnode: (address space, offset, byte size).  NoVar is the null outvar.
VN(sp, off, sz) == [space |-> sp, offset |-> off, size |-> sz]
NoVar == VN("none", 0, 0)

\* A p-code op as handed to PcodeEmit::dump.
PcodeOp(opc, out, ins) == [op |-> opc, outvar |-> out, vars |-> ins]

\* A variant whose range opens after CPUI_FLOAT_EQUAL.
isFloatOp_Open(opc) ==
  OpCode[opc] > OpCode.CPUI_FLOAT_EQUAL /\ OpCode[opc] <= OpCode.CPUI_FLOAT_ROUND

isFloatOp(opc) ==
  /\ OpCode[opc] >= OpCode["CPUI_FLOAT_EQUAL"]
  /\ OpCode[opc] <= OpCode["CPUI_FLOAT_ROUND"]

kEqualityClaimName == "claim_eq"

\* A variant that takes no varnode for a constant.
isVarnodeInConstantSpace_Never(vnode) == FALSE

isVarnodeInConstantSpace(vnode) == vnode.space = "const"

(***************************************************************************)
(* LLVM IR, structurally.                                                  *)
(*   value       [k, id, ty]   k = "const": the integer id of type i<ty>   *)
(*                             k = "inst":  the result of instruction id   *)
(*                             k = "arg":   function argument number id    *)
(*   pointer     [pk, name, n, bits]  a register of State, an alloca (the  *)
(*               MEMORY slot or a scratch cell of <bits> bits), or one of  *)
(*               the pointer arguments btaken / npc                        *)
(*   instruction [id, opc, ty, args, ptr, tgt]                             *)
(* Integer types are their bit width; FloatTy stands for llvm float.       *)
(***************************************************************************)
FloatTy == 0 - 32
PtrTy == 0 - 1
VoidTy == 0 - 2

IntV(val, ty) == [k |-> "const", id |-> val, ty |-> ty]
InstV(id, ty) == [k |-> "inst", id |-> id, ty |-> ty]
ArgV(n, ty) == [k |-> "arg", id |-> n, ty |-> ty]
NoValue == [k |-> "none", id |-> 0, ty |-> VoidTy]

NoPtr == [pk |-> "none", name |-> "", n |-> 0, bits |-> 0]
RegPtr(name) == [pk |-> "reg", name |-> name, n |-> 0, bits |-> 0]
AllocaPtr(name, off, bits) ==
  [pk |-> "alloca", name |-> name, n |-> off, bits |-> bits]
ArgPtr(name, n) == [pk |-> "arg", name |-> name, n |-> n, bits |-> 0]

kStatePointerArgNum == 0
kMemoryPointerArgNum == 1
kBranchTakenArgNum == 2
kNextPcArgNum == 3

kMemoryVariableName == "MEMORY"
kPCVariableName == "PC"
kNextPCVariableName == "NEXT_PC"

\* Block numbers of the instruction function, in creation order.
EntryBlock == 1
ExitBlock == 2

\* The architecture's address width in bits (GetWordType).
WordBits == 32

RECURSIVE Pow2(_)
Pow2(n) == IF n = 0 THEN 1 ELSE 2 * Pow2(n - 1)

\* llvm::ConstantInt::get(type, v): v reduced to the type's width.
ConstantInt(ty, v) == IntV(IF ty >= 1 /\ ty <= 24 THEN v % Pow2(ty) ELSE v, ty)

\* IRBuilder::Insert at the end of block b.
Emit(L, b, opc, ty, args, ptr, tgt) ==
  [L EXCEPT !.blocks[b] = Append(@, [id |-> L.next_id, opc |-> opc,
                                      ty |-> ty, args |-> args,
                                      ptr |-> ptr, tgt |-> tgt]),
            !.next_id = @ + 1]

\* An instruction with a result: the new state and the result value.
EmitV(L, b, opc, ty, args) ==
  [L |-> Emit(L, b, opc, ty, args, NoPtr, <<>>), v |-> InstV(L.next_id, ty)]

CreateLoad(L, b, ty, ptr) ==
  [L |-> Emit(L, b, "load", ty, <<>>, ptr, <<>>), v |-> InstV(L.next_id, ty)]

CreateStore(L, b, val, ptr) == Emit(L, b, "store", VoidTy, <<val>>, ptr, <<>>)

\* IRBuilder::CreateCast returns its operand when the type is already right.
CreateCast(L, b, opc, val, ty) ==
  IF val.ty = ty THEN [L |-> L, v |-> val] ELSE EmitV(L, b, opc, ty, <<val>>)

CreateZExtOrTrunc(L, b, val, ty) ==
  IF val.ty < ty THEN CreateCast(L, b, "zext", val, ty)
  ELSE IF val.ty > ty THEN CreateCast(L, b, "trunc", val, ty)
  ELSE [L |-> L, v |-> val]

IsTerminator(i) == i.opc \in {"br", "condbr", "ret"}

\* A variant that reports a terminator in every block.
HasTerminator_Always(blk) == TRUE

\* BasicBlock::getTerminator() != nullptr: the block's last instruction is a
\* terminator.
HasTerminator(blk) == Len(blk) > 0 /\ IsTerminator(blk[Len(blk)])

(***************************************************************************)
(* Collaborators outside this file: the memory intrinsics, the register    *)
(* file of the architecture and the SLEIGH engine's register names.        *)
(***************************************************************************)
\* remill::LoadFromMemory / StoreToMemory have an intrinsic for these types
\* only, and return null for any other.
MemTypeSupported(ty) == ty \in {8, 16, 32, 64, FloatTy}

\* Sleigh::getRegisterName, by register-space offset: "" when the engine
\* names no register there.
SleighRegisterName ==
  [o \in 0..4 |-> CASE o = 0 -> "r0" [] o = 1 -> "r1" [] o = 2 -> "pc"
                    [] o = 3 -> "tmpcy" [] OTHER -> ""]

getRegisterName(vnode) ==
  IF vnode.offset \in DOMAIN SleighRegisterName
  THEN SleighRegisterName[vnode.offset] ELSE ""

\* toupper over the characters of a register name.
ToUpper ==
  [n \in {"r0", "r1", "pc", "tmpcy", "PC", ""} |->
     CASE n = "r0" -> "R0" [] n = "r1" -> "R1" [] n = "pc" -> "PC"
       [] n = "tmpcy" -> "TMPCY" [] OTHER -> n]

\* SleighDecoder::GetStateRegRemappings of the modelled architecture.
StateRegRemappings == [n \in {} |-> ""]

ArchHasRegByName(name) == name \in {"R0", "R1", "PC", "NEXT_PC"}

\* InstructionLifter::LoadRegAddress: the MEMORY slot of the function, or a
\* pointer into State; it adds nothing to the block.
LoadRegAddress(name) ==
  IF name = kMemoryVariableName THEN AllocaPtr(kMemoryVariableName, 0, PtrTy)
  ELSE RegPtr(name)

(***************************************************************************)
(* Parameter and its three implementations.                                *)
(*   [cls, ptr, val]: RegisterValue has a pointer; Memory has the MEMORY   *)
(*   slot and an index value; ConstantValue has a value.                   *)
(***************************************************************************)
CreatRegister(ptr) == [cls |-> "RegisterValue", ptr |-> ptr, val |-> NoValue]
CreateMemory(memory_ref_ptr, index) ==
  [cls |-> "Memory", ptr |-> memory_ref_ptr, val |-> index]
CreatConstant(cst) == [cls |-> "ConstantValue", ptr |-> NoPtr, val |-> cst]

\* Parameter::LiftAsInParam: [L, ok, v]; ok = FALSE is std::nullopt.
LiftAsInParam(L, b, p, ty) ==
  CASE p.cls = "RegisterValue" ->
         LET r == CreateLoad(L, b, ty, p.ptr)
         IN [L |-> r.L, ok |-> TRUE, v |-> r.v]
    [] p.cls = "Memory" ->
         LET mem == CreateLoad(L, b, PtrTy, p.ptr)
         IN IF MemTypeSupported(ty)
            THEN LET res == EmitV(mem.L, b, "read_memory", ty,
                                  <<mem.v, p.val>>)
                 IN [L |-> res.L, ok |-> TRUE, v |-> res.v]
            ELSE [L |-> mem.L, ok |-> FALSE, v |-> NoValue]
    [] OTHER ->
         IF ty # p.val.ty THEN [L |-> L, ok |-> FALSE, v |-> NoValue]
         ELSE [L |-> L, ok |-> TRUE, v |-> p.val]

\* A variant whose memory write leaves the memory-pointer cell alone.
StoreIntoParam_Unthreaded(L, b, p, inner_lifted) ==
  CASE p.cls = "RegisterValue" ->
         [L |-> CreateStore(L, b, inner_lifted, p.ptr),
          st |-> kLiftedInstruction]
    [] p.cls = "Memory" ->
         LET mem == CreateLoad(L, b, PtrTy, p.ptr)
         IN IF MemTypeSupported(inner_lifted.ty)
            THEN [L |-> EmitV(mem.L, b, "write_memory", PtrTy,
                              <<mem.v, p.val, inner_lifted>>).L,
                  st |-> kLiftedInstruction]
            ELSE [L |-> mem.L, st |-> kLiftedInvalidInstruction]
    [] OTHER -> [L |-> L, st |-> kLiftedUnsupportedInstruction]

\* Parameter::StoreIntoParam: [L, st].
StoreIntoParam(L, b, p, inner_lifted) ==
  CASE p.cls = "RegisterValue" ->
         [L |-> CreateStore(L, b, inner_lifted, p.ptr),
          st |-> kLiftedInstruction]
    [] p.cls = "Memory" ->
         LET mem == CreateLoad(L, b, PtrTy, p.ptr)
         IN IF MemTypeSupported(inner_lifted.ty)
            THEN LET new_mem == EmitV(mem.L, b, "write_memory", PtrTy,
                                      <<mem.v, p.val, inner_lifted>>)
                 IN [L |-> CreateStore(new_mem.L, b, new_mem.v, p.ptr),
                     st |-> kLiftedInstruction]
            ELSE [L |-> mem.L, st |-> kLiftedInvalidInstruction]
    [] OTHER -> [L |-> L, st |-> kLiftedUnsupportedInstruction]

(***************************************************************************)
(* UniqueRegSpace and ConstantReplacementContext.                          *)
(***************************************************************************)
EmptyMap == <<>>

\* std::map::insert / unordered_map::insert: an existing key keeps its value.
MapInsert(m, key, val) ==
  IF key \in DOMAIN m THEN m ELSE m @@ (key :> val)

\* A variant that allocates a cell at every reference.
GetUniquePtr_Fresh(L, b, part, offset, size) ==
  LET ptr == AllocaPtr(part, offset, 8 * size)
      L1 == Emit(L, b, "alloca", 8 * size, <<>>, ptr, <<>>)
  IN [L |-> IF part = "uniques"
            THEN [L1 EXCEPT !.uniques = MapInsert(@, offset, ptr)]
            ELSE [L1 EXCEPT !.unknown_regs = MapInsert(@, offset, ptr)],
      ptr |-> ptr]

\* UniqueRegSpace::GetUniquePtr on the partition `part` ("uniques" or
\* "unknown_regs"): [L, ptr].
GetUniquePtr(L, b, part, offset, size) ==
  LET cached == IF part = "uniques" THEN L.uniques ELSE L.unknown_regs
  IN IF offset \in DOMAIN cached
     THEN [L |-> L, ptr |-> cached[offset]]
     ELSE LET ptr == AllocaPtr(part, offset, 8 * size)
              L1 == Emit(L, b, "alloca", 8 * size, <<>>, ptr, <<>>)
          IN [L |-> IF part = "uniques"
                    THEN [L1 EXCEPT !.uniques = MapInsert(@, offset, ptr)]
                    ELSE [L1 EXCEPT !.unknown_regs =
                                       MapInsert(@, offset, ptr)],
              ptr |-> ptr]

\* ConstantReplacementContext::ApplyNonEqualityClaim.
ApplyNonEqualityClaim(L) ==
  [L EXCEPT !.current_replacements = EmptyMap, !.used_values = {}]

\* The tail of LiftOffsetOrReplace once the replacement has been read.
UseReplacement(replacement, target) ==
  IF ~replacement.ok
  THEN [L |-> [replacement.L EXCEPT !.fatal = TRUE], v |-> NoValue]
  ELSE [L |-> [replacement.L EXCEPT !.used_values = @ \cup {target.offset}],
        v |-> replacement.v]

\* A variant that always resolves an offset to its literal.
LiftOffsetOrReplace_Literal(L, b, target, target_type) ==
  [L |-> L, v |-> ConstantInt(target_type, target.offset)]

\* ConstantReplacementContext::LiftOffsetOrReplace: [L, v].  A replacement
\* that cannot be read as target_type is LOG(FATAL): the process aborts.
LiftOffsetOrReplace(L, b, target, target_type) ==
  IF target.offset \in DOMAIN L.current_replacements
  THEN UseReplacement(LiftAsInParam(L, b,
                                    L.current_replacements[target.offset],
                                    target_type), target)
  ELSE [L |-> L, v |-> ConstantInt(target_type, target.offset)]

(***************************************************************************)
(* Varnode resolution.                                                     *)
(***************************************************************************)
\* CreateMemoryAddress: a Memory parameter over the function's MEMORY slot.
CreateMemoryAddress(offset) ==
  CreateMemory(LoadRegAddress(kMemoryVariableName), offset)

\* LiftNormalRegister: [ok, p]; ok = FALSE is std::nullopt.
LiftNormalRegister(reg_name) ==
  LET upper == ToUpper[reg_name]
      name == IF upper \in DOMAIN StateRegRemappings
              THEN StateRegRemappings[upper] ELSE upper
  IN IF ArchHasRegByName(name)
     THEN [ok |-> TRUE, p |-> CreatRegister(LoadRegAddress(name))]
     ELSE [ok |-> FALSE, p |-> CreatRegister(NoPtr)]

\* RegisterValue::CreatRegister over a scratch cell, a Memory parameter and a
\* ConstantValue over a lifted offset: [L, p].
RegisterAt(u) == [L |-> u.L, p |-> CreatRegister(u.ptr)]
MemoryAt(constant_offset) ==
  [L |-> constant_offset.L, p |-> CreateMemoryAddress(constant_offset.v)]
ConstantAt(cst_v) == [L |-> cst_v.L, p |-> CreatConstant(cst_v.v)]

\* LiftNormalRegisterOrCreateUnique: [L, p].
LiftNormalRegisterOrCreateUnique(L, b, reg_name, target_vnode) ==
  LET res == LiftNormalRegister(reg_name)
  IN IF res.ok THEN [L |-> L, p |-> res.p]
     ELSE RegisterAt(GetUniquePtr(L, b, "unknown_regs", target_vnode.offset,
                                  target_vnode.size))

\* LiftParamPtr: [L, p].  An unhandled address space is LOG(FATAL).
LiftParamPtr(L, b, vnode) ==
  CASE vnode.space = "ram" ->
         MemoryAt(LiftOffsetOrReplace(L, b, vnode, WordBits))
    [] vnode.space = "register" ->
         LiftNormalRegisterOrCreateUnique(L, b, getRegisterName(vnode), vnode)
    [] vnode.space = "const" ->
         ConstantAt(LiftOffsetOrReplace(L, b, vnode, vnode.size * 8))
    [] vnode.space = "unique" ->
         RegisterAt(GetUniquePtr(L, b, "uniques", vnode.offset, vnode.size))
    [] OTHER -> [L |-> [L EXCEPT !.fatal = TRUE], p |-> CreatConstant(NoValue)]

\* The insert of ApplyEqualityClaim; its assert needs a constant-space key.
InsertClaim(pp, lhs_constant) ==
  [pp.L EXCEPT
     !.current_replacements = MapInsert(@, lhs_constant.offset, pp.p),
     !.fatal = @ \/ ~isVarnodeInConstantSpace(lhs_constant)]

\* ConstantReplacementContext::ApplyEqualityClaim.  The claimed value is
\* resolved before the insert, which keeps an earlier entry of the key.
ApplyEqualityClaim(L, b, lhs_constant, rhs_unfolded_value) ==
  InsertClaim(LiftParamPtr(L, b, rhs_unfolded_value), lhs_constant)

\* FixResultForOutVarnode: [L, v].
FixResultForOutVarnode(L, b, orig, outvnode) ==
  LET out_bits == outvnode.size * 8
  IN IF out_bits = orig.ty THEN [L |-> L, v |-> orig]
     ELSE CreateZExtOrTrunc(L, b, orig, out_bits)

\* Parameter::LiftAsInParam / StoreIntoParam on a resolved location.
ReadParam(pp, b, ty) == LiftAsInParam(pp.L, b, pp.p, ty)
WriteParam(pp, b, inner_lifted) == StoreIntoParam(pp.L, b, pp.p, inner_lifted)

\* LiftInParam: [L, ok, v].
LiftInParam(L, b, vnode, ty) ==
  ReadParam(LiftParamPtr(L, b, vnode), b, ty)

LiftIntegerInParam(L, b, vnode) == LiftInParam(L, b, vnode, vnode.size * 8)

LiftFloatInParam(L, b, vnode) == LiftInParam(L, b, vnode, FloatTy)

\* LiftStoreIntoOutParam through LiftRequireOutParam: [L, st].
LiftStoreIntoOutParam(L, b, inner_lifted, outvar) ==
  IF outvar # NoVar
  THEN WriteParam(LiftParamPtr(L, b, outvar), b, inner_lifted)
  ELSE [L |-> L, st |-> kLiftedUnsupportedInstruction]

Unsupported(L) == [L |-> L, st |-> kLiftedUnsupportedInstruction]

\* A dereference of a null outvar (outvar->size): the process crashes.
NullDeref(L) == [L |-> [L EXCEPT !.fatal = TRUE],
                 st |-> kLiftedUnsupportedInstruction]

(***************************************************************************)
(* Block termination and control flow.                                     *)
(***************************************************************************)
\* A variant in which the branch-taken flag is the next-PC cell.
GetBranchTakenRef_NextPc == ArgPtr("npc", kNextPcArgNum)

GetBranchTakenRef == ArgPtr("btaken", kBranchTakenArgNum)
GetNextPcRef == ArgPtr("npc", kNextPcArgNum)

\* A variant that never adds the branch.
TerminateBlock_Skip(L) == L

\* A variant whose conditional branch falls back into the block it ends.
TerminateBlockWithCondition_Loop(L, condition) ==
  LET old == L.target_block
      continuation == Len(L.blocks) + 1
      L1 == [L EXCEPT !.blocks = Append(@, <<>>),
                      !.target_block = continuation]
  IN [L |-> Emit(L1, old, "condbr", VoidTy, <<condition>>, NoPtr,
                 <<old, continuation>>),
      st |-> kLiftedInstruction]

\* TerminateBlock: an unconditional branch to the exit block, unless the
\* current block's last instruction is a terminator.
TerminateBlock(L) ==
  IF ~HasTerminator(L.blocks[L.target_block])
  THEN Emit(L, L.target_block, "br", VoidTy, <<>>, NoPtr, <<L.exit_block>>)
  ELSE L

\* A variant that leaves the split block current.
TerminateBlockWithCondition_Stay(L, condition) ==
  [L |-> Emit([L EXCEPT !.blocks = Append(@, <<>>)], L.target_block,
              "condbr", VoidTy, <<condition>>, NoPtr,
              <<L.exit_block, Len(L.blocks) + 1>>),
   st |-> kLiftedInstruction]

\* TerminateBlockWithCondition: [L, st].
TerminateBlockWithCondition(L, condition) ==
  LET old == L.target_block
      continuation == Len(L.blocks) + 1
      L1 == [L EXCEPT !.blocks = Append(@, <<>>),
                      !.target_block = continuation]
  IN [L |-> Emit(L1, old, "condbr", VoidTy, <<condition>>, NoPtr,
                 <<L.exit_block, continuation>>),
      st |-> kLiftedInstruction]

\* RedirectControlFlow: [L, st].
RedirectControlFlow(L, b, target_addr) ==
  [L |-> TerminateBlock(CreateStore(L, b, target_addr, GetNextPcRef)),
   st |-> kLiftedInstruction]

(***************************************************************************)
(* Unary ops.                                                              *)
(***************************************************************************)
FloatIntrinsic ==
  [o \in {"CPUI_FLOAT_ABS", "CPUI_FLOAT_SQRT", "CPUI_FLOAT_CEIL",
          "CPUI_FLOAT_FLOOR", "CPUI_FLOAT_ROUND"} |->
     CASE o = "CPUI_FLOAT_ABS" -> "fabs" [] o = "CPUI_FLOAT_SQRT" -> "sqrt"
       [] o = "CPUI_FLOAT_CEIL" -> "ceil" [] o = "CPUI_FLOAT_FLOOR" -> "floor"
       [] OTHER -> "round"]

(***************************************************************************)
(* Results threaded through a lowering.  A read is [L, ok, v]; two reads   *)
(* are [L, ok, v, w]; ok = FALSE is a read that returned std::nullopt,     *)
(* after which the lowering emits nothing more and returns Unsupported.    *)
(***************************************************************************)
Ok(r) == [L |-> r.L, ok |-> TRUE, v |-> r.v]
Fail(r) == [L |-> r.L, ok |-> FALSE, v |-> NoValue]
Pair(r, s) == [L |-> s.L, ok |-> r.ok /\ s.ok, v |-> r.v, w |-> s.v]
Dup(r) == [L |-> r.L, ok |-> r.ok, v |-> r.v, w |-> r.v]

\* A second LiftInParam, made whether or not the first succeeded.
AndRead(r, b, vnode, ty) == Pair(r, LiftInParam(r.L, b, vnode, ty))

\* A second LiftInParam, made only after the first succeeded.
ThenRead(r, b, vnode, ty) ==
  IF r.ok THEN Pair(r, LiftInParam(r.L, b, vnode, ty))
  ELSE [L |-> r.L, ok |-> FALSE, v |-> NoValue, w |-> NoValue]

\* An IRBuilder call on the value read (and further operands `more`).
EmitOn(r, b, opc, ty, more) ==
  IF r.ok THEN Ok(EmitV(r.L, b, opc, ty, <<r.v>> \o more)) ELSE Fail(r)

\* An IRBuilder call on the two values read.
EmitOn2(r, b, opc, ty) ==
  IF r.ok THEN Ok(EmitV(r.L, b, opc, ty, <<r.v, r.w>>)) ELSE Fail(r)

CastOn(r, b, opc, ty) ==
  IF r.ok THEN Ok(CreateCast(r.L, b, opc, r.v, ty)) ELSE Fail(r)

FixOn(r, b, outvnode) ==
  IF r.ok THEN Ok(FixResultForOutVarnode(r.L, b, r.v, outvnode)) ELSE Fail(r)

\* return this->LiftStoreIntoOutParam(bldr, value, outvar): [L, st].
StoreOn(r, b, outvar) ==
  IF r.ok THEN LiftStoreIntoOutParam(r.L, b, r.v, outvar)
  ELSE Unsupported(r.L)

\* return this->RedirectControlFlow(bldr, value): [L, st].
RedirectOn(r, b) ==
  IF r.ok THEN RedirectControlFlow(r.L, b, r.v) ELSE Unsupported(r.L)

\* outvar->size on a null outvar, reached once the read succeeded.
NullDerefOn(r) == IF r.ok THEN NullDeref(r.L) ELSE Unsupported(r.L)

\* An assert that fails ends the process.
FatalUnless(res, cond) ==
  [L |-> [res.L EXCEPT !.fatal = @ \/ ~cond], st |-> res.st]

\* LiftUnaryOpWithFloatIntrinsic: [L, st].
LiftUnaryOpWithFloatIntrinsic(L, b, intrinsic_id, outvar, input_var) ==
  StoreOn(EmitOn(LiftInParam(L, b, input_var, FloatTy), b, intrinsic_id,
                 FloatTy, <<>>), b, outvar)

\* LiftUnaryOp: [L, st].
LiftUnaryOp(L, b, opc, outvar, input_var) ==
  CASE opc = "CPUI_BOOL_NEGATE" ->
         StoreOn(CastOn(EmitOn(LiftInParam(L, b, input_var, 8), b, "icmp_eq",
                               1, <<ConstantInt(8, 0)>>), b, "zext", 8),
                 b, outvar)
    [] opc \in {"CPUI_COPY", "CPUI_CAST"} ->
         StoreOn(LiftInParam(L, b, input_var, input_var.size * 8), b, outvar)
    [] opc \in {"CPUI_BRANCH", "CPUI_CALL"} ->
         IF isVarnodeInConstantSpace(input_var) THEN Unsupported(L)
         ELSE RedirectOn(Ok(LiftOffsetOrReplace(L, b, input_var,
                                                input_var.size * 8)), b)
    [] opc \in {"CPUI_RETURN", "CPUI_BRANCHIND", "CPUI_CALLIND"} ->
         RedirectOn(LiftInParam(L, b, input_var, input_var.size * 8), b)
    [] opc \in {"CPUI_INT_ZEXT", "CPUI_INT_SEXT"} ->
         IF outvar = NoVar
         THEN NullDerefOn(LiftIntegerInParam(L, b, input_var))
         ELSE StoreOn(CastOn(LiftIntegerInParam(L, b, input_var), b,
                             IF opc = "CPUI_INT_ZEXT" THEN "zext" ELSE "sext",
                             outvar.size * 8), b, outvar)
    [] opc \in {"CPUI_INT_2COMP", "CPUI_INT_NEGATE"} ->
         StoreOn(EmitOn(LiftIntegerInParam(L, b, input_var), b,
                        IF opc = "CPUI_INT_2COMP" THEN "neg" ELSE "not",
                        input_var.size * 8, <<>>), b, outvar)
    [] opc = "CPUI_FLOAT_NEG" ->
         StoreOn(EmitOn(LiftInParam(L, b, input_var, FloatTy), b, "fneg",
                        FloatTy, <<>>), b, outvar)
    [] opc = "CPUI_FLOAT_FLOAT2FLOAT" ->
         StoreOn(CastOn(LiftInParam(L, b, input_var, FloatTy), b, "fptrunc",
                        FloatTy), b, outvar)
    [] opc \in DOMAIN FloatIntrinsic ->
         LiftUnaryOpWithFloatIntrinsic(L, b, FloatIntrinsic[opc], outvar,
                                       input_var)
    [] opc = "CPUI_FLOAT_NAN" ->
         IF outvar = NoVar
         THEN NullDerefOn(LiftInParam(L, b, input_var, FloatTy))
         ELSE StoreOn(CastOn(EmitOn(EmitOn2(Dup(LiftInParam(L, b, input_var,
                                                            FloatTy)),
                                            b, "fcmp_oeq", 1),
                                    b, "not", 1, <<>>),
                             b, "zext", outvar.size * 8), b, outvar)
    [] opc = "CPUI_FLOAT_INT2FLOAT" ->
         StoreOn(EmitOn(LiftIntegerInParam(L, b, input_var), b, "sitofp",
                        FloatTy, <<>>), b, outvar)
    [] opc = "CPUI_FLOAT_TRUNC" ->
         IF outvar = NoVar
         THEN NullDerefOn(LiftInParam(L, b, input_var, FloatTy))
         ELSE StoreOn(EmitOn(LiftInParam(L, b, input_var, FloatTy), b,
                             "fptosi", outvar.size * 8, <<>>), b, outvar)
    [] opc = "CPUI_POPCOUNT" ->
         IF outvar = NoVar
         THEN NullDerefOn(LiftIntegerInParam(L, b, input_var))
         ELSE StoreOn(FixOn(EmitOn(LiftIntegerInParam(L, b, input_var), b,
                                   "ctpop", input_var.size * 8, <<>>),
                            b, outvar), b, outvar)
    [] OTHER -> Unsupported(L)

\* LiftCBranch once the condition has been read: [L, st].
CBranchOn(should_branch, b, lhs) ==
  IF ~should_branch.ok THEN Unsupported(should_branch.L)
  ELSE IF isVarnodeInConstantSpace(lhs) THEN Unsupported(should_branch.L)
  ELSE
    LET jump_addr == LiftOffsetOrReplace(should_branch.L, b, lhs,
                                         lhs.size * 8)
        trunc_should_branch ==
          CreateCast(jump_addr.L, b, "trunc", should_branch.v, 1)
        pc_reg_param == LiftNormalRegister("PC")
        orig_pc_value == LiftAsInParam(trunc_should_branch.L, b,
                                       pc_reg_param.p, WordBits)
        next_pc_value ==
          EmitV(orig_pc_value.L, b, "select", lhs.size * 8,
                <<trunc_should_branch.v, jump_addr.v, orig_pc_value.v>>)
        stored == IF orig_pc_value.ok
                  THEN CreateStore(next_pc_value.L, b, next_pc_value.v,
                                   GetNextPcRef)
                  ELSE orig_pc_value.L
    IN TerminateBlockWithCondition(
         [stored EXCEPT !.fatal = @ \/ ~pc_reg_param.ok],
         trunc_should_branch.v)

\* A variant that redirects control flow unconditionally.
LiftCBranch_Always(L, b, outvar, lhs, rhs) ==
  RedirectOn(Ok(LiftOffsetOrReplace(L, b, lhs, lhs.size * 8)), b)

\* LiftCBranch: [L, st].
LiftCBranch(L, b, outvar, lhs, rhs) ==
  CBranchOn(LiftInParam(L, b, rhs, rhs.size * 8), b, lhs)

(***************************************************************************)
(* Binary ops.                                                             *)
(***************************************************************************)
\* INTEGER_BINARY_OPS: the IRBuilder call each op code maps to.
INTEGER_BINARY_OPS ==
  [o \in {"CPUI_INT_AND", "CPUI_INT_OR", "CPUI_INT_XOR", "CPUI_INT_LEFT",
          "CPUI_INT_RIGHT", "CPUI_INT_SRIGHT", "CPUI_INT_ADD",
          "CPUI_INT_SUB", "CPUI_INT_MULT", "CPUI_INT_DIV", "CPUI_INT_SDIV",
          "CPUI_INT_REM", "CPUI_INT_SREM", "CPUI_INT_EQUAL",
          "CPUI_INT_NOTEQUAL", "CPUI_INT_LESS", "CPUI_INT_SLESS",
          "CPUI_INT_LESSEQUAL", "CPUI_INT_SLESSEQUAL", "CPUI_INT_CARRY",
          "CPUI_INT_SCARRY", "CPUI_INT_SBORROW"} |->
     CASE o = "CPUI_INT_AND" -> "and" [] o = "CPUI_INT_OR" -> "or"
       [] o = "CPUI_INT_XOR" -> "xor" [] o = "CPUI_INT_LEFT" -> "shl"
       [] o = "CPUI_INT_RIGHT" -> "lshr" [] o = "CPUI_INT_SRIGHT" -> "ashr"
       [] o = "CPUI_INT_ADD" -> "add" [] o = "CPUI_INT_SUB" -> "sub"
       [] o = "CPUI_INT_MULT" -> "mul" [] o = "CPUI_INT_DIV" -> "udiv"
       [] o = "CPUI_INT_SDIV" -> "sdiv" [] o = "CPUI_INT_REM" -> "urem"
       [] o = "CPUI_INT_SREM" -> "srem" [] o = "CPUI_INT_EQUAL" -> "icmp_eq"
       [] o = "CPUI_INT_NOTEQUAL" -> "icmp_ne"
       [] o = "CPUI_INT_LESS" -> "icmp_ult"
       [] o = "CPUI_INT_SLESS" -> "icmp_slt"
       [] o = "CPUI_INT_LESSEQUAL" -> "icmp_sle"
       [] o = "CPUI_INT_SLESSEQUAL" -> "icmp_ule"
       [] o = "CPUI_INT_CARRY" -> "uadd_with_overflow"
       [] o = "CPUI_INT_SCARRY" -> "sadd_with_overflow"
       [] OTHER -> "ssub_with_overflow"]

INTEGER_COMP_OPS ==
  {"CPUI_INT_EQUAL", "CPUI_INT_NOTEQUAL", "CPUI_INT_LESS", "CPUI_INT_SLESS",
   "CPUI_INT_LESSEQUAL", "CPUI_INT_SLESSEQUAL", "CPUI_INT_SBORROW",
   "CPUI_INT_SCARRY", "CPUI_INT_CARRY"}

BOOL_BINARY_OPS ==
  [o \in {"CPUI_BOOL_AND", "CPUI_BOOL_OR", "CPUI_BOOL_XOR"} |->
     CASE o = "CPUI_BOOL_AND" -> "and" [] o = "CPUI_BOOL_OR" -> "or"
       [] OTHER -> "xor"]

\* The lambda INTEGER_BINARY_OPS holds for opc, applied: [L, v].
IntegerOpFunc(L, b, opc, lhs, rhs) ==
  CASE opc \in {"CPUI_INT_LEFT", "CPUI_INT_RIGHT", "CPUI_INT_SRIGHT"} ->
         IF lhs.ty # rhs.ty
         THEN EmitOn2(Pair([L |-> L, ok |-> TRUE, v |-> lhs],
                           Ok(CreateZExtOrTrunc(L, b, rhs, lhs.ty))),
                      b, INTEGER_BINARY_OPS[opc], lhs.ty)
         ELSE EmitV(L, b, INTEGER_BINARY_OPS[opc], lhs.ty, <<lhs, rhs>>)
    [] opc \in {"CPUI_INT_EQUAL", "CPUI_INT_NOTEQUAL", "CPUI_INT_LESS",
                "CPUI_INT_SLESS", "CPUI_INT_LESSEQUAL",
                "CPUI_INT_SLESSEQUAL"} ->
         CastOn(Ok(EmitV(L, b, INTEGER_BINARY_OPS[opc], 1, <<lhs, rhs>>)),
                b, "zext", 8)
    [] opc \in {"CPUI_INT_CARRY", "CPUI_INT_SCARRY", "CPUI_INT_SBORROW"} ->
         EmitOn(Ok(EmitV(L, b, INTEGER_BINARY_OPS[opc], lhs.ty,
                         <<lhs, rhs>>)), b, "extractvalue", 1, <<>>)
    [] OTHER -> EmitV(L, b, INTEGER_BINARY_OPS[opc], lhs.ty, <<lhs, rhs>>)

\* The zext to i8 of a comparison whose result is not 8 bits wide.
ZExtComp(orig_res, b, opc) ==
  IF opc \in INTEGER_COMP_OPS /\ orig_res.v.ty # 8
  THEN CreateCast(orig_res.L, b, "zext", orig_res.v, 8)
  ELSE orig_res

\* The op function of LiftIntegerBinOp on the two values read.
IntegerOpOn(r, b, opc) ==
  IF r.ok THEN Ok(ZExtComp(IntegerOpFunc(r.L, b, opc, r.v, r.w), b, opc))
  ELSE Fail(r)

\* LiftIntegerBinOp: [L, st].
LiftIntegerBinOp(L, b, opc, outvar, lhs, rhs) ==
  IF opc \in DOMAIN INTEGER_BINARY_OPS
  THEN StoreOn(IntegerOpOn(AndRead(LiftIntegerInParam(L, b, lhs), b, rhs,
                                   rhs.size * 8), b, opc), b, outvar)
  ELSE Unsupported(L)

\* LiftBoolBinOp: [L, st].
LiftBoolBinOp(L, b, opc, outvar, lhs, rhs) ==
  IF opc \notin DOMAIN BOOL_BINARY_OPS THEN Unsupported(L)
  ELSE StoreOn(EmitOn2(AndRead(LiftInParam(L, b, lhs, 8), b, rhs, 8), b,
                       BOOL_BINARY_OPS[opc], 8), b, outvar)

\* FindFloatBinOpFunc: the IRBuilder call, "" for std::nullopt.
FindFloatBinOpFunc(opc) ==
  CASE opc = "CPUI_FLOAT_EQUAL" -> "fcmp_oeq"
    [] opc = "CPUI_FLOAT_NOTEQUAL" -> "fcmp_one"
    [] opc = "CPUI_FLOAT_LESS" -> "fcmp_olt"
    [] opc = "CPUI_FLOAT_LESSEQUAL" -> "fcmp_ole"
    [] opc = "CPUI_FLOAT_ADD" -> "fadd" [] opc = "CPUI_FLOAT_SUB" -> "fsub"
    [] opc = "CPUI_FLOAT_MULT" -> "fmul" [] opc = "CPUI_FLOAT_DIV" -> "fdiv"
    [] OTHER -> ""

\* LiftFloatBinOp: [L, st].
LiftFloatBinOp(L, b, opc, outvar, lhs, rhs) ==
  IF FindFloatBinOpFunc(opc) = "" THEN Unsupported(L)
  ELSE IF FindFloatBinOpFunc(opc) \in {"fadd", "fsub", "fmul", "fdiv"}
  THEN StoreOn(EmitOn2(AndRead(LiftFloatInParam(L, b, lhs), b, rhs, FloatTy),
                       b, FindFloatBinOpFunc(opc), FloatTy), b, outvar)
  ELSE StoreOn(CastOn(EmitOn2(AndRead(LiftFloatInParam(L, b, lhs), b, rhs,
                                      FloatTy),
                              b, FindFloatBinOpFunc(opc), 1), b, "zext", 8),
               b, outvar)

\* The read through the address lifted by the CPUI_LOAD arm.
LoadOn(r, b, outvar) ==
  IF r.ok
  THEN LiftAsInParam(r.L, b, CreateMemoryAddress(r.v), outvar.size * 8)
  ELSE Fail(r)

\* The CPUI_LOAD arm of LiftBinOp: [L, st].
LiftLoad(L, b, outvar, rhs) ==
  StoreOn(LoadOn(LiftInParam(L, b, rhs, WordBits), b, outvar), b, outvar)

\* The shift and the or of the CPUI_PIECE arm on the widened operand.
ConcatOn(ms_operand, b, rhs, lifted_rhs) ==
  EmitOn(EmitOn(ms_operand, b, "shl", ms_operand.v.ty,
                <<ConstantInt(8, rhs.size)>>),
         b, "or", ms_operand.v.ty, <<lifted_rhs>>)

\* The concatenation of the CPUI_PIECE arm on the two values read.  The most
\* significant operand is widened to a type of outvar->size bits and shifted
\* by rhs.size.
PieceOn(r, b, outvar, rhs) ==
  IF r.ok
  THEN ConcatOn(Ok(CreateCast(r.L, b, "zext", r.v, outvar.size)), b, rhs, r.w)
  ELSE Fail(r)

\* The CPUI_PIECE arm of LiftBinOp: [L, st].  Its assert comes first.
LiftPiece(L, b, outvar, lhs, rhs) ==
  FatalUnless(StoreOn(PieceOn(AndRead(LiftInParam(L, b, lhs, lhs.size * 8),
                                      b, rhs, rhs.size * 8),
                              b, outvar, rhs), b, outvar),
              rhs.size + lhs.size = outvar.size)

\* The resize of the CPUI_SUBPIECE arm after its truncation.
ResizeOn(t, b, new_size, outvar) ==
  IF new_size < outvar.size THEN CastOn(t, b, "zext", 8 * outvar.size)
  ELSE IF new_size > outvar.size THEN CastOn(t, b, "trunc", 8 * outvar.size)
  ELSE t

\* The CPUI_SUBPIECE arm of LiftBinOp: [L, st].
LiftSubpiece(L, b, outvar, lhs, rhs) ==
  StoreOn(ResizeOn(CastOn(LiftInParam(L, b, lhs, lhs.size * 8), b, "trunc",
                          (lhs.size - rhs.offset) * 8),
                   b, lhs.size - rhs.offset, outvar), b, outvar)

\* The arms of LiftBinOp after the integer, bool and float attempts.
LiftBinOp_Other(fres, b, opc, outvar, lhs, rhs) ==
  IF fres.st = kLiftedInstruction THEN fres
  ELSE IF opc = "CPUI_LOAD" /\ outvar # NoVar
  THEN LiftLoad(fres.L, b, outvar, rhs)
  ELSE IF opc = "CPUI_PIECE" /\ outvar # NoVar
  THEN LiftPiece(fres.L, b, outvar, lhs, rhs)
  ELSE IF opc = "CPUI_SUBPIECE" /\ outvar # NoVar
  THEN LiftSubpiece(fres.L, b, outvar, lhs, rhs)
  ELSE Unsupported(fres.L)

\* The float attempt of LiftBinOp after the bool attempt.
LiftBinOp_Float(sres, b, opc, outvar, lhs, rhs) ==
  IF sres.st = kLiftedInstruction THEN sres
  ELSE LiftBinOp_Other(LiftFloatBinOp(sres.L, b, opc, outvar, lhs, rhs),
                       b, opc, outvar, lhs, rhs)

\* The bool attempt of LiftBinOp after the integer attempt.
LiftBinOp_Bool(res, b, opc, outvar, lhs, rhs) ==
  IF res.st = kLiftedInstruction THEN res
  ELSE LiftBinOp_Float(LiftBoolBinOp(res.L, b, opc, outvar, lhs, rhs),
                       b, opc, outvar, lhs, rhs)

\* LiftBinOp: [L, st].  Each attempt that fails leaves what it emitted.
LiftBinOp(L, b, opc, outvar, lhs, rhs) ==
  IF opc = "CPUI_CBRANCH" THEN LiftCBranch(L, b, outvar, lhs, rhs)
  ELSE LiftBinOp_Bool(LiftIntegerBinOp(L, b, opc, outvar, lhs, rhs),
                      b, opc, outvar, lhs, rhs)

(***************************************************************************)
(* Three-operand, variadic and user-defined ops.                           *)
(***************************************************************************)
\* The store of the CPUI_STORE arm on the address and the value read.
StoreMemOn(r, b) ==
  IF r.ok THEN StoreIntoParam(r.L, b, CreateMemoryAddress(r.v), r.w)
  ELSE Unsupported(r.L)

\* The multiply and add of the CPUI_PTRADD arm on the two values read.
PtrAddOn(r, b, elem_size) ==
  IF r.ok
  THEN EmitOn2(Pair(r, Ok(EmitV(r.L, b, "mul", r.w.ty, <<r.w, elem_size>>))),
               b, "add", r.v.ty)
  ELSE Fail(r)

\* LiftThreeOperandOp: [L, st].
LiftThreeOperandOp(L, b, opc, outvar, param0, param1, param2) ==
  CASE opc = "CPUI_STORE" ->
         StoreMemOn(ThenRead(LiftInParam(L, b, param1, WordBits), b, param2,
                             param2.size * 8), b)
    [] opc = "CPUI_PTRADD" ->
         StoreOn(PtrAddOn(AndRead(LiftInParam(L, b, param0, WordBits), b,
                                  param1, param1.size * 8),
                          b, ConstantInt(param2.size * 8, param2.offset)),
                 b, outvar)
    [] opc = "CPUI_PTRSUB" ->
         StoreOn(EmitOn2(AndRead(LiftInParam(L, b, param0, WordBits), b,
                                 param1, param1.size * 8),
                         b, "add", WordBits), b, outvar)
    [] OTHER -> Unsupported(L)

\* PHINode::addIncoming on the phi with the given id in block b.
AddIncoming(L, b, phi_id, val) ==
  [L EXCEPT !.blocks[b] =
     [i \in DOMAIN @ |-> IF @[i].id = phi_id
                         THEN [@[i] EXCEPT !.args = Append(@, val)]
                         ELSE @[i]]]

\* The loop of the CPUI_MULTIEQUAL arm over vars[i..]: [L, ok].
RECURSIVE LiftPhiInputs(_, _, _, _, _)
RECURSIVE PhiInputOn(_, _, _, _, _)
LiftPhiInputs(L, b, phi_id, vars, i) ==
  IF i > Len(vars) THEN [L |-> L, ok |-> TRUE]
  ELSE PhiInputOn(LiftInParam(L, b, vars[i], vars[i].size * 8), b, phi_id,
                  vars, i)

\* One iteration of that loop on the value read.
PhiInputOn(inval, b, phi_id, vars, i) ==
  IF ~inval.ok THEN [L |-> inval.L, ok |-> FALSE]
  ELSE LiftPhiInputs(AddIncoming(inval.L, b, phi_id, inval.v), b, phi_id,
                     vars, i + 1)

\* The CPUI_MULTIEQUAL arm once the phi node exists.
PhiOn(phi_node, b, outvar, vars) ==
  StoreOn([L |-> LiftPhiInputs(phi_node.L, b, phi_node.v.id, vars, 1).L,
           ok |-> LiftPhiInputs(phi_node.L, b, phi_node.v.id, vars, 1).ok,
           v |-> phi_node.v], b, outvar)

\* LiftVariadicOp: [L, st].  vars[0] of an op without inputs is read out of
\* bounds: the process crashes.
LiftVariadicOp(L, b, opc, outvar, vars) ==
  CASE opc = "CPUI_MULTIEQUAL" ->
         IF Len(vars) = 0 THEN NullDeref(L)
         ELSE PhiOn(EmitV(L, b, "phi", vars[1].size * 8, <<>>), b, outvar,
                    vars)
    [] OTHER -> Unsupported(L)

\* GetOtherFuncName: the user-op name, "" for std::nullopt.
GetOtherFuncName(user_op_names, ivars) ==
  IF Len(ivars) < 1 \/ ivars[1].offset >= Len(user_op_names) THEN ""
  ELSE user_op_names[ivars[1].offset + 1]

kEqualityClaimArity == 3

\* A variant that takes every three-input user op for a claim.
HandleCallOther_AnyName(L, b, outvar, vars) ==
  IF Len(vars) = kEqualityClaimArity
  THEN [L |-> ApplyEqualityClaim(L, b, vars[2], vars[3]),
        st |-> kLiftedInstruction]
  ELSE Unsupported(L)

\* HandleCallOther: [L, st].
HandleCallOther(L, b, outvar, vars) ==
  IF GetOtherFuncName(L.user_op_names, vars) # ""
     /\ GetOtherFuncName(L.user_op_names, vars) = kEqualityClaimName
     /\ Len(vars) = kEqualityClaimArity
  THEN [L |-> ApplyEqualityClaim(L, b, vars[2], vars[3]),
        st |-> kLiftedInstruction]
  ELSE Unsupported(L)

(***************************************************************************)
(* The branch-taken side effect, the status and the dump callback.         *)
(***************************************************************************)
\* A variant that records whatever status it is handed.
UpdateStatus_Assign(L, new_status) ==
  [L EXCEPT !.status = new_status,
            !.status_log = Append(@, new_status)]

\* UpdateStatus; status_log keeps every status handed to it, in order.
UpdateStatus(L, new_status) ==
  [L EXCEPT !.status = IF new_status # kLiftedInstruction
                       THEN new_status ELSE @,
            !.status_log = Append(@, new_status)]

\* this->UpdateStatus(status, opc) on the result of a lowering.
Update(r) == UpdateStatus(r.L, r.st)

\* The store of LiftBranchTaken on the value read: [L, st].
BranchTakenOn(maybe_should_branch, b) ==
  IF ~maybe_should_branch.ok
  THEN [L |-> maybe_should_branch.L, st |-> kLiftedLifterError]
  ELSE [L |-> CreateStore(
                CreateZExtOrTrunc(maybe_should_branch.L, b,
                                  maybe_should_branch.v, 8).L, b,
                CreateZExtOrTrunc(maybe_should_branch.L, b,
                                  maybe_should_branch.v, 8).v,
                GetBranchTakenRef),
        st |-> kLiftedInstruction]

\* LiftBranchTaken: [L, st].
LiftBranchTaken(L, b, btaken_var) ==
  BranchTakenOn(LiftIntegerInParam(L, b, btaken_var.target_vnode), b)

\* The optional branch-taken descriptor; NoBranchTaken is std::nullopt.
NoBranchTaken == [has |-> FALSE, index |-> 0, target_vnode |-> NoVar]
BranchTakenVar(i, vn) == [has |-> TRUE, index |-> i, target_vnode |-> vn]

\* A variant that emits the side effect one op late.
LiftBtakenIfReached_Late(L, b) ==
  IF L.to_lift_btaken.has /\ L.curr_id = L.to_lift_btaken.index + 1
  THEN Update(LiftBranchTaken(L, b, L.to_lift_btaken))
  ELSE L

\* LiftBtakenIfReached.
LiftBtakenIfReached(L, b) ==
  IF L.to_lift_btaken.has /\ L.curr_id = L.to_lift_btaken.index
  THEN Update(LiftBranchTaken(L, b, L.to_lift_btaken))
  ELSE L

\* LiftPcodeOp.
LiftPcodeOp(L, b, opc, outvar, vars) ==
  Update(CASE opc \in {"CPUI_MULTIEQUAL", "CPUI_CPOOLREF"} ->
                LiftVariadicOp(L, b, opc, outvar, vars)
           [] opc = "CPUI_CALLOTHER" -> HandleCallOther(L, b, outvar, vars)
           [] Len(vars) = 1 -> LiftUnaryOp(L, b, opc, outvar, vars[1])
           [] Len(vars) = 2 -> LiftBinOp(L, b, opc, outvar, vars[1], vars[2])
           [] Len(vars) = 3 -> LiftThreeOperandOp(L, b, opc, outvar, vars[1],
                                                  vars[2], vars[3])
           [] OTHER -> Unsupported(L))

\* PcodeToLLVMEmitIntoBlock::dump: the builder sits at the end of the block
\* that is current when the callback starts.
dump(L, op) ==
  [LiftPcodeOp(LiftBtakenIfReached(L, L.target_block), L.target_block,
               op.op, op.outvar, op.vars) EXCEPT !.curr_id = @ + 1]

(***************************************************************************)
(* The SLEIGH context and the decoder (outside this file).                 *)
(* The context is the set of addresses whose context variables differ from *)
(* the initial ones.  Decoding an instruction commits a context change for *)
(* the address that follows it (globalset on inst_next); bytes decoded at  *)
(* an address with changed context yield other p-code.                     *)
(***************************************************************************)
PCs == {0, 1}

InitialSleighContext == {}

\* A variant that leaves the context as the last decode left it.
ResetSleighContext_Skip(ctx) == ctx

\* resetContext followed by SleighDecoder::InitializeSleighContext.
ResetSleighContext(ctx) == InitialSleighContext

\* What the bytes of any instruction decode to under a changed context.
AltPcode == <<PcodeOp("CPUI_INT_2COMP", VN("register", 0, 4),
                      <<VN("register", 0, 4)>>)>>

\* SingleInstructionSleighContext::oneInstruction: the p-code handed to the
\* emitter, and the context afterwards.  inst.pcode is the p-code of the
\* instruction's bytes under the initial context.
oneInstruction(ctx, inst) ==
  [ops |-> IF inst.pc \in ctx THEN AltPcode ELSE inst.pcode,
   ctx |-> ctx \cup ({inst.pc + 1} \cap PCs)]

\* SingleInstructionSleighContext::getUserOpNames.
UserOpNames == <<"claim_eq", "sync">>

(***************************************************************************)
(* The instruction function and the PcodeToLLVMEmitIntoBlock object.       *)
(***************************************************************************)
\* DefineInstructionFunction followed by the creation of the exit block:
\* the blocks of the new function.  LoadMemoryPointer loads the MEMORY slot.
DefineInstructionFunction ==
  LET memory == ArgV(kMemoryPointerArgNum, PtrTy)
      slot == AllocaPtr(kMemoryVariableName, 0, PtrTy)
      f0 == [blocks |-> <<<<>>, <<>>>>, next_id |-> 0]
      f1 == Emit(f0, EntryBlock, "alloca", PtrTy, <<>>, slot, <<>>)
      f2 == CreateStore(f1, EntryBlock, memory, slot)
      mem == CreateLoad(f2, ExitBlock, PtrTy,
                        LoadRegAddress(kMemoryVariableName))
  IN Emit(mem.L, ExitBlock, "ret", VoidTy, <<mem.v>>, NoPtr, <<>>)

\* The constructor of PcodeToLLVMEmitIntoBlock.
NewLifter(func, user_op_names_, btaken_) ==
  [blocks |-> func.blocks, next_id |-> func.next_id,
   target_block |-> EntryBlock, exit_block |-> ExitBlock,
   status |-> kLiftedInstruction, status_log |-> <<>>,
   uniques |-> EmptyMap, unknown_regs |-> EmptyMap,
   current_replacements |-> EmptyMap, used_values |-> {},
   user_op_names |-> user_op_names_, curr_id |-> 0,
   to_lift_btaken |-> btaken_, fatal |-> FALSE]

\* A variant in which the arena and the claim context outlive the lift.
DestroyedLifter_Kept(L) ==
  [L EXCEPT !.target_block = 0, !.exit_block = 0,
            !.user_op_names = <<>>, !.curr_id = 0,
            !.to_lift_btaken = [has |-> FALSE, index |-> 0,
                                target_vnode |-> NoVar]]

\* The lifter object once LiftIntoInternalBlockWithSleighState has returned:
\* its members are destroyed with it.
DestroyedLifter(L) ==
  [L EXCEPT !.target_block = 0, !.exit_block = 0,
            !.uniques = EmptyMap, !.unknown_regs = EmptyMap,
            !.current_replacements = EmptyMap, !.used_values = {},
            !.user_op_names = <<>>, !.curr_id = 0,
            !.to_lift_btaken = NoBranchTaken]

\* The IR LiftIntoBlockWithSleighState appends to the caller's block after a
\* successful lift.
CallerEpilogue(inst) ==
  LET c0 == [blocks |-> <<<<>>>>, next_id |-> 0]
      pc_ref == LoadRegAddress(kPCVariableName)
      next_pc_ref == LoadRegAddress(kNextPCVariableName)
      next_pc == CreateLoad(c0, 1, WordBits, next_pc_ref)
      cur == EmitV(next_pc.L, 1, "LiftPcFromCurrPc", WordBits,
                   <<next_pc.v, ConstantInt(WordBits, inst.size)>>)
      c1 == CreateStore(cur.L, 1, cur.v, pc_ref)
      nxt == EmitV(c1, 1, "add", WordBits,
                   <<next_pc.v, ConstantInt(WordBits, inst.size)>>)
      c2 == CreateStore(nxt.L, 1, nxt.v, next_pc_ref)
      mem == CreateLoad(c2, 1, PtrTy, LoadRegAddress(kMemoryVariableName))
      call == EmitV(mem.L, 1, "call_instruction_function", PtrTy, <<mem.v>>)
      c3 == CreateStore(call.L, 1, call.v,
                        LoadRegAddress(kMemoryVariableName))
  IN c3.blocks[1]

(***************************************************************************)
(* The instructions the driver hands to the lifter.                        *)
(***************************************************************************)
SeqsUpTo(S, n) == UNION {[1..m -> S] : m \in 0..n}

R0(sz) == VN("register", 0, sz)
R1(sz) == VN("register", 1, sz)
Ram(off, sz) == VN("ram", off, sz)
Const(off, sz) == VN("const", off, sz)
Unique(off, sz) == VN("unique", off, sz)
\* A register SLEIGH names and the architecture does not have.
UnknownReg(sz) == VN("register", 3, sz)

\* Control flow and failing ops.
ControlFlowOps ==
  {PcodeOp("CPUI_COPY", R0(4), <<R1(4)>>),
   PcodeOp("CPUI_BRANCH", NoVar, <<Ram(16, 4)>>),
   PcodeOp("CPUI_BRANCH", NoVar, <<Const(1, 4)>>),
   PcodeOp("CPUI_CBRANCH", NoVar, <<Ram(16, 4), R1(1)>>),
   PcodeOp("CPUI_CBRANCH", NoVar, <<Const(2, 4), R1(1)>>),
   PcodeOp("CPUI_RETURN", NoVar, <<R0(4)>>),
   PcodeOp("CPUI_COPY", Ram(32, 16), <<R0(16)>>)}

\* Floating-point ops and their neighbours in the OpCode enumeration.
FloatFamilyOps ==
  {PcodeOp("CPUI_FLOAT_EQUAL", R0(1), <<R0(4), R1(4)>>),
   PcodeOp("CPUI_FLOAT_ROUND", R0(4), <<R1(4)>>),
   PcodeOp("CPUI_BOOL_OR", R0(1), <<R0(1), R1(1)>>),
   PcodeOp("CPUI_MULTIEQUAL", R0(4), <<R0(4), R1(4)>>),
   PcodeOp("CPUI_COPY", R0(4), <<R1(4)>>)}

\* Ops whose input, result and output widths differ or agree.
WidthOps ==
  {PcodeOp("CPUI_COPY", R0(o), <<R1(i)>>) : o \in {1, 4}, i \in {1, 4}}
  \cup {PcodeOp("CPUI_CAST", Unique(0, 4), <<R1(1)>>),
        PcodeOp("CPUI_INT_ADD", R0(4), <<R1(4), Const(5, 4)>>),
        PcodeOp("CPUI_INT_ADD", R0(4), <<R1(1), Const(5, 1)>>),
        PcodeOp("CPUI_INT_LEFT", R0(4), <<R1(4), R0(1)>>),
        PcodeOp("CPUI_INT_EQUAL", R0(1), <<R1(4), Const(5, 4)>>),
        PcodeOp("CPUI_INT_LESS", R0(4), <<R1(4), Const(5, 4)>>),
        PcodeOp("CPUI_INT_LESSEQUAL", R0(1), <<R1(1), R0(1)>>),
        PcodeOp("CPUI_INT_SLESSEQUAL", R0(1), <<R1(1), R0(1)>>),
        PcodeOp("CPUI_PIECE", R0(2), <<R1(1), R0(1)>>),
        PcodeOp("CPUI_INT_CARRY", R0(1), <<R1(4), R0(4)>>),
        PcodeOp("CPUI_BOOL_NEGATE", R0(1), <<R1(1)>>),
        PcodeOp("CPUI_BOOL_NEGATE", R0(4), <<R1(1)>>),
        PcodeOp("CPUI_BOOL_AND", Ram(8, 2), <<R0(1), R1(1)>>),
        PcodeOp("CPUI_POPCOUNT", R0(1), <<R1(4)>>),
        PcodeOp("CPUI_INT_ZEXT", R0(4), <<R1(1)>>),
        PcodeOp("CPUI_INT_2COMP", R0(4), <<R1(4)>>),
        PcodeOp("CPUI_SUBPIECE", R0(1), <<R1(4), Const(2, 4)>>),
        PcodeOp("CPUI_LOAD", R0(4), <<Const(0, 4), R1(4)>>),
        PcodeOp("CPUI_STORE", NoVar, <<Const(0, 4), R1(4), R0(2)>>),
        PcodeOp("CPUI_PTRADD", R0(4), <<R0(4), R1(4), Const(4, 4)>>),
        PcodeOp("CPUI_PTRSUB", R0(4), <<R1(4), Const(5, 4)>>),
        PcodeOp("CPUI_CPOOLREF", R0(4), <<R0(4), R1(4)>>),
        PcodeOp("CPUI_COPY", Const(3, 4), <<R1(4)>>),
        PcodeOp("CPUI_COPY", NoVar, <<R1(4)>>),
        PcodeOp("CPUI_INT_ZEXT", NoVar, <<R1(1)>>)}

\* CALLOTHER(name index, ...): claim_eq is user op 0.
ClaimEq(c, v) == PcodeOp("CPUI_CALLOTHER", NoVar, <<Const(0, 4), c, v>>)

ClaimOps ==
  {ClaimEq(Const(16, 4), R1(4)),
   ClaimEq(Const(16, 4), Ram(48, 4)),
   ClaimEq(Const(16, 4), Const(7, 4)),
   ClaimEq(Const(16, 4), Unique(0, 4)),
   ClaimEq(Const(16, 4), UnknownReg(4)),
   ClaimEq(Const(7, 4), R0(4)),
   ClaimEq(Const(48, 4), Ram(48, 4)),
   PcodeOp("CPUI_CALLOTHER", NoVar, <<Const(1, 4), Const(16, 4), R1(4)>>),
   PcodeOp("CPUI_CALLOTHER", NoVar, <<Const(0, 4), Const(16, 4)>>),
   PcodeOp("CPUI_CALLOTHER", NoVar, <<>>),
   PcodeOp("CPUI_CALLOTHER", NoVar, <<Const(2, 4), Const(16, 4), R1(4)>>),
   PcodeOp("CPUI_COPY", Unique(0, 4), <<R1(4)>>),
   PcodeOp("CPUI_COPY", R0(4), <<Const(16, 4)>>),
   PcodeOp("CPUI_INT_ADD", R0(4), <<Const(16, 4), Const(16, 4)>>),
   PcodeOp("CPUI_BRANCH", NoVar, <<Ram(16, 4)>>),
   PcodeOp("CPUI_BRANCH", NoVar, <<Const(16, 4)>>),
   PcodeOp("CPUI_CALL", NoVar, <<Const(16, 4)>>)}

\* References to scratch cells: the unique offset 0 and the unnamed
\* register at offset 3 at two sizes each, and the unique offset 3.
ScratchOps ==
  {PcodeOp("CPUI_COPY", Unique(0, 1), <<R1(1)>>),
   PcodeOp("CPUI_COPY", Unique(0, 4), <<R1(4)>>),
   PcodeOp("CPUI_COPY", R0(4), <<Unique(0, 4)>>),
   PcodeOp("CPUI_COPY", Unique(0, 1), <<Unique(0, 4)>>),
   PcodeOp("CPUI_COPY", UnknownReg(4), <<R1(4)>>),
   PcodeOp("CPUI_COPY", R0(1), <<UnknownReg(1)>>),
   PcodeOp("CPUI_COPY", Unique(3, 4), <<UnknownReg(4)>>)}

\* Memory writes and reads around a conditional branch.
MemoryOps ==
  {PcodeOp("CPUI_COPY", Ram(32, 4), <<R1(4)>>),
   PcodeOp("CPUI_COPY", R0(4), <<Ram(32, 4)>>),
   PcodeOp("CPUI_STORE", NoVar, <<Const(0, 4), R1(4), Ram(32, 4)>>),
   PcodeOp("CPUI_CBRANCH", NoVar, <<Ram(16, 4), R1(1)>>),
   PcodeOp("CPUI_COPY", Ram(32, 16), <<R0(16)>>)}

Instruction(pc, pcode) ==
  [pc |-> pc, pcode |-> pcode, size |-> 4, valid |-> TRUE]
InvalidInstruction == [pc |-> 0, pcode |-> <<>>, size |-> 0, valid |-> FALSE]
NoInstruction == [pc |-> 0, pcode |-> <<>>, size |-> 0, valid |-> FALSE]

\* Branch-taken descriptors: a flag register, or a 16-byte memory operand
\* that no memory intrinsic reads.
BranchTakenVars ==
  {NoBranchTaken}
  \cup {BranchTakenVar(k, R1(1)) : k \in 0..MaxOps}
  \cup {BranchTakenVar(k, Ram(32, 16)) : k \in 0..1}

\* The (instruction, branch-taken descriptor) pairs lifted.
Lifts ==
  ({Instruction(0, s) : s \in SeqsUpTo(ControlFlowOps, MaxOps)}
     \X BranchTakenVars)
  \cup ({Instruction(0, s) : s \in SeqsUpTo(FloatFamilyOps, MaxOps)}
          \X {NoBranchTaken})
  \cup ({Instruction(0, s) : s \in SeqsUpTo(ScratchOps, MaxOps)}
          \X {NoBranchTaken})
  \cup ({Instruction(0, s) : s \in SeqsUpTo(MemoryOps, MaxOps)}
          \X {NoBranchTaken})
  \cup ({Instruction(0, s) : s \in SeqsUpTo(ClaimOps, MaxClaimOps)}
          \X {NoBranchTaken, BranchTakenVar(1, R1(1))})
  \cup ({Instruction(pc, s) :
           pc \in PCs,
           s \in SeqsUpTo(WidthOps \cup ControlFlowOps \cup ClaimOps, 1)}
          \X {NoBranchTaken, BranchTakenVar(0, R1(1))})
  \cup ({InvalidInstruction} \X {NoBranchTaken})

(***************************************************************************)
(* State.                                                                  *)
(***************************************************************************)
VARIABLES
  phase,                 \* "idle", "lifting", "internal_done", "aborted"
  inst,                  \* the instruction being lifted
  sleigh_context,        \* SleighLifter::sleigh_context
  pcode,                 \* the p-code oneInstruction feeds to dump
  blocks, next_id,       \* the instruction function under construction
  target_block, exit_block, status, uniques, unknown_regs,
  current_replacements, used_values, user_op_names, curr_id,
  to_lift_btaken,        \* the members of PcodeToLLVMEmitIntoBlock
  btaken,                \* SleighLifterWithState::btaken of the caller
  status_log,            \* every status handed to UpdateStatus, in order
  earlier,               \* what earlier lifts did: "scratch" (recorded a
                         \* scratch cell or a claim), "context" (left the
                         \* decoder context changed)
  ret,                   \* what LiftIntoInternalBlockWithSleighState returned
  caller_block,          \* the IR appended to the caller's block
  result                 \* what LiftIntoBlockWithSleighState returned

vars ==
  <<phase, inst, sleigh_context, pcode, blocks, next_id, target_block,
    exit_block, status, uniques, unknown_regs, current_replacements,
    used_values, user_op_names, curr_id, to_lift_btaken, btaken,
    status_log, earlier, ret, caller_block, result>>

\* The lifter object as a record, and its write-back.
Lifter ==
  [blocks |-> blocks, next_id |-> next_id, target_block |-> target_block,
   exit_block |-> exit_block, status |-> status, status_log |-> status_log,
   uniques |-> uniques, unknown_regs |-> unknown_regs,
   current_replacements |-> current_replacements,
   used_values |-> used_values, user_op_names |-> user_op_names,
   curr_id |-> curr_id, to_lift_btaken |-> to_lift_btaken, fatal |-> FALSE]

SetLifter(L) ==
  /\ blocks' = L.blocks
  /\ next_id' = L.next_id
  /\ target_block' = L.target_block
  /\ exit_block' = L.exit_block
  /\ status' = L.status
  /\ status_log' = L.status_log
  /\ uniques' = L.uniques
  /\ unknown_regs' = L.unknown_regs
  /\ current_replacements' = L.current_replacements
  /\ used_values' = L.used_values
  /\ user_op_names' = L.user_op_names
  /\ curr_id' = L.curr_id
  /\ to_lift_btaken' = L.to_lift_btaken

NoFunction == [blocks |-> <<>>, next_id |-> 0]
NoRet == [status |-> kLiftedInstruction, has_func |-> FALSE]
NoResult == "none"

\* No lifter object exists.
NoLifter == DestroyedLifter(NewLifter(NoFunction, <<>>, NoBranchTaken))

Init ==
  /\ phase = "idle"
  /\ inst = NoInstruction
  /\ sleigh_context = InitialSleighContext
  /\ pcode = <<>>
  /\ blocks = NoLifter.blocks
  /\ next_id = NoLifter.next_id
  /\ target_block = NoLifter.target_block
  /\ exit_block = NoLifter.exit_block
  /\ status = NoLifter.status
  /\ status_log = NoLifter.status_log
  /\ uniques = NoLifter.uniques
  /\ unknown_regs = NoLifter.unknown_regs
  /\ current_replacements = NoLifter.current_replacements
  /\ used_values = NoLifter.used_values
  /\ user_op_names = NoLifter.user_op_names
  /\ curr_id = NoLifter.curr_id
  /\ to_lift_btaken = NoLifter.to_lift_btaken
  /\ btaken = NoBranchTaken
  /\ earlier = {}
  /\ ret = NoRet
  /\ caller_block = <<>>
  /\ result = NoResult

(***************************************************************************)
(* Actions.                                                                *)
(***************************************************************************)
ContextLeft(ctx) == IF ctx = InitialSleighContext THEN {} ELSE {"context"}

ArenaAndClaimsEmpty ==
  /\ uniques = EmptyMap
  /\ unknown_regs = EmptyMap
  /\ current_replacements = EmptyMap
  /\ used_values = {}

HasFloatOp(ops) == \E k \in 1..Len(ops) : isFloatOp(ops[k].op)

\* LiftIntoBlockWithSleighState on an instruction that is not valid.
LiftInvalid ==
  /\ phase = "idle"
  /\ \E l \in Lifts : ~l[1].valid
  /\ result' = kLiftedInvalidInstruction
  /\ caller_block' = <<>>
  /\ ret' = NoRet
  /\ UNCHANGED <<phase, inst, sleigh_context, pcode, blocks, next_id,
                 target_block, exit_block, status, uniques, unknown_regs,
                 current_replacements, used_values, user_op_names, curr_id,
                 to_lift_btaken, btaken, status_log, earlier>>

\* LiftIntoInternalBlockWithSleighState up to the return of the float screen.
LiftRejectFloat ==
  /\ phase = "idle"
  /\ \E l \in Lifts :
       LET i == l[1]
           bt == l[2]
           pcode_record ==
             oneInstruction(ResetSleighContext(sleigh_context), i)
       IN /\ i.valid
          /\ HasFloatOp(pcode_record.ops)
          /\ sleigh_context' = pcode_record.ctx
          /\ pcode' = pcode_record.ops
          /\ earlier' = earlier \cup ContextLeft(pcode_record.ctx)
          /\ inst' = i
          /\ btaken' = bt
  /\ phase' = "internal_done"
  /\ ret' = [status |-> kLiftedUnsupportedInstruction, has_func |-> FALSE]
  /\ caller_block' = <<>>
  /\ result' = NoResult
  /\ UNCHANGED <<blocks, next_id, target_block, exit_block, status, uniques,
                 unknown_regs, current_replacements, used_values,
                 user_op_names, curr_id, to_lift_btaken, status_log>>

\* LiftIntoInternalBlockWithSleighState up to the second oneInstruction: the
\* screen passes, the function and the lifter object are created.
LiftBegin ==
  /\ phase = "idle"
  /\ \E l \in Lifts :
       LET i == l[1]
           bt == l[2]
           pcode_record ==
             oneInstruction(ResetSleighContext(sleigh_context), i)
           second == oneInstruction(pcode_record.ctx, i)
       IN /\ i.valid
          /\ ~HasFloatOp(pcode_record.ops)
          /\ sleigh_context' = second.ctx
          /\ pcode' = second.ops
          /\ SetLifter(NewLifter(DefineInstructionFunction, UserOpNames, bt))
          /\ inst' = i
          /\ btaken' = bt
  /\ phase' = "lifting"
  /\ earlier' = earlier
  /\ ret' = NoRet
  /\ caller_block' = <<>>
  /\ result' = NoResult

\* What llvm's own checks accept of an instruction's operand types.
WellTypedInst(i) ==
  CASE i.opc = "zext" -> i.args[1].ty >= 1 /\ i.args[1].ty < i.ty
    [] i.opc = "trunc" -> i.ty >= 1 /\ i.args[1].ty > i.ty
    [] i.opc = "select" ->
         i.args[1].ty = 1 /\ i.args[2].ty = i.ty /\ i.args[3].ty = i.ty
    [] i.opc \in {"add", "sub", "mul", "shl", "and", "or", "xor"}
         /\ Len(i.args) = 2 ->
         i.args[1].ty = i.ty /\ i.args[2].ty = i.ty
    [] OTHER -> TRUE

WellTyped(blks) ==
  \A b \in 1..Len(blks) : \A k \in 1..Len(blks[b]) : WellTypedInst(blks[b][k])

\* One dump callback.  A LOG(FATAL) or a null dereference ends the process.
Dump ==
  /\ phase = "lifting"
  /\ curr_id < Len(pcode)
  /\ \E L \in {dump(Lifter, pcode[curr_id + 1])}, checked \in BOOLEAN :
       /\ SetLifter(L)
       /\ phase' = IF L.fatal \/ (checked /\ ~WellTyped(L.blocks))
                   THEN "aborted" ELSE "lifting"
  /\ UNCHANGED <<inst, sleigh_context, pcode, btaken, earlier, ret,
                 caller_block, result>>

\* The end of LiftIntoInternalBlockWithSleighState: the final TerminateBlock,
\* the returned pair, and the end of the lifter object's life.
InternalReturn ==
  /\ phase = "lifting"
  /\ curr_id = Len(pcode)
  /\ LET L == TerminateBlock(Lifter)
     IN /\ ret' = [status |-> L.status, has_func |-> TRUE]
        /\ SetLifter(DestroyedLifter(L))
  /\ earlier' = earlier \cup ContextLeft(sleigh_context)
                         \cup (IF ArenaAndClaimsEmpty THEN {} ELSE {"scratch"})
  /\ phase' = "internal_done"
  /\ UNCHANGED <<inst, sleigh_context, pcode, btaken, caller_block, result>>

\* A variant that appends the call whatever the internal lift returned.
LiftIntoBlockReturn_Always ==
  /\ phase = "internal_done"
  /\ result' = ret.status
  /\ caller_block' = caller_block \o CallerEpilogue(inst)
  /\ phase' = "idle"
  /\ SetLifter([NoLifter EXCEPT
                  !.uniques = uniques, !.unknown_regs = unknown_regs,
                  !.current_replacements = current_replacements,
                  !.used_values = used_values])
  /\ inst' = NoInstruction
  /\ pcode' = <<>>
  /\ btaken' = NoBranchTaken
  /\ UNCHANGED <<sleigh_context, earlier, ret>>

\* The rest of LiftIntoBlockWithSleighState.  The function stays in the
\* module and is not referred to again; the emitter's members are as its
\* destruction left them.
LiftIntoBlockReturn ==
  /\ phase = "internal_done"
  /\ result' = ret.status
  /\ caller_block' = IF ret.status # kLiftedInstruction \/ ~ret.has_func
                     THEN caller_block
                     ELSE caller_block \o CallerEpilogue(inst)
  /\ phase' = "idle"
  /\ SetLifter([NoLifter EXCEPT
                  !.uniques = uniques, !.unknown_regs = unknown_regs,
                  !.current_replacements = current_replacements,
                  !.used_values = used_values])
  /\ inst' = NoInstruction
  /\ pcode' = <<>>
  /\ btaken' = NoBranchTaken
  /\ UNCHANGED <<sleigh_context, earlier, ret>>

Next ==
  \/ LiftInvalid
  \/ LiftRejectFloat
  \/ LiftBegin
  \/ Dump
  \/ InternalReturn
  \/ LiftIntoBlockReturn

Spec == Init /\ [][Next]_vars

(***************************************************************************)
(* The run-time meaning of the emitted function.  A machine holds the      *)
(* cells the function's pointers name (registers of the State structure,   *)
(* stack slots, the cells behind the pointer arguments) and the values of  *)
(* the instructions run so far.  Integers of type iN are kept modulo 2^N.  *)
(***************************************************************************)
MaxSteps == 8

\* Types wider than 24 bits hold their values exactly, as ConstantInt does:
\* the values run stay below 2^24.
Wrap(x, ty) == IF ty >= 1 /\ ty <= 24 THEN x % Pow2(ty) ELSE x

ToSigned(x, ty) ==
  IF ty >= 1 /\ ty <= 24 /\ x >= Pow2(ty - 1) THEN x - Pow2(ty) ELSE x

Machine(cells) ==
  [cells |-> cells, vals |-> [i \in {} |-> 0], exit_from |-> 0,
   defined |-> TRUE]

\* The value an operand has in machine m.
ValueOf(m, v) ==
  CASE v.k = "const" -> Wrap(v.id, v.ty)
    [] v.k = "inst" /\ v.id \in DOMAIN m.vals -> m.vals[v.id]
    [] OTHER -> 0

SetVal(m, i, x) == [m EXCEPT !.vals = (i.id :> Wrap(x, i.ty)) @@ @]

\* A load of type ty reads the low ty bits of the cell; a load of a cell
\* nothing has written reads no defined value.
LoadCell(m, i) ==
  IF i.ptr \in DOMAIN m.cells
  THEN SetVal(m, i, m.cells[i.ptr])
  ELSE [SetVal(m, i, 0) EXCEPT !.defined = FALSE]

\* A store of an iN value replaces the low N bits of the cell.
StoreCell(m, p, x, ty) ==
  [m EXCEPT !.cells =
     (p :> (IF ty >= 1 /\ p \in DOMAIN m.cells
            THEN m.cells[p] - Wrap(m.cells[p], ty) + Wrap(x, ty)
            ELSE x)) @@ @]

BoolInt(c) == IF c THEN 1 ELSE 0

\* The bitwise and / or / xor of two naturals.
RECURSIVE Bitwise(_, _, _)
Bitwise(opc, x, y) ==
  IF x = 0 /\ y = 0 THEN 0
  ELSE 2 * Bitwise(opc, x \div 2, y \div 2)
       + (CASE opc = "and" -> BoolInt(x % 2 = 1 /\ y % 2 = 1)
            [] opc = "or" -> BoolInt(x % 2 = 1 \/ y % 2 = 1)
            [] OTHER -> (x + y) % 2)

\* The result of a two-operand instruction on operand values x and y of
\* type ty.
BinaryValue(opc, x, y, ty) ==
  CASE opc = "add" -> x + y
    [] opc = "sub" -> IF ty <= 24 THEN x + Pow2(ty) - y ELSE x - y
    [] opc = "mul" -> x * y
    [] opc = "shl" -> IF y < ty THEN x * Pow2(y) ELSE 0
    [] opc \in {"and", "or", "xor"} -> Bitwise(opc, x, y)
    [] opc = "icmp_eq" -> BoolInt(x = y)
    [] opc = "icmp_ne" -> BoolInt(x # y)
    [] opc = "icmp_ult" -> BoolInt(x < y)
    [] opc = "icmp_ule" -> BoolInt(x <= y)
    [] opc = "icmp_slt" -> BoolInt(ToSigned(x, ty) < ToSigned(y, ty))
    [] opc = "icmp_sle" -> BoolInt(ToSigned(x, ty) <= ToSigned(y, ty))
    [] OTHER -> 0

BinaryOpcodes ==
  {"add", "sub", "mul", "shl", "and", "or", "xor", "icmp_eq", "icmp_ne", "icmp_ult", "icmp_ule",
   "icmp_slt", "icmp_sle"}

\* One instruction that is not a terminator, run on machine m.
Step(m, i) ==
  CASE i.opc = "alloca" -> m
    [] i.opc = "store" ->
         StoreCell(m, i.ptr, ValueOf(m, i.args[1]), i.args[1].ty)
    [] i.opc = "load" -> LoadCell(m, i)
    [] i.opc \in {"zext", "trunc"} -> SetVal(m, i, ValueOf(m, i.args[1]))
    [] i.opc = "select" ->
         SetVal(m, i, IF ValueOf(m, i.args[1]) = 1
                      THEN ValueOf(m, i.args[2])
                      ELSE ValueOf(m, i.args[3]))
    [] i.opc \in BinaryOpcodes /\ Len(i.args) = 2 ->
         SetVal(m, i, BinaryValue(i.opc, ValueOf(m, i.args[1]),
                                  ValueOf(m, i.args[2]), i.args[1].ty))
    [] OTHER -> [SetVal(m, i, 0) EXCEPT !.defined = FALSE]

\* The function run from instruction k of block b until it returns, or
\* until it has taken `fuel` branches: the machine it leaves, exit_from
\* being the block whose ret ended the call (0: none did).
RECURSIVE Exec(_, _, _, _, _)
Exec(blks, b, k, m, fuel) ==
  IF k > Len(blks[b]) \/ fuel = 0 THEN m
  ELSE IF blks[b][k].opc = "ret" THEN [m EXCEPT !.exit_from = b]
  ELSE IF blks[b][k].opc = "br"
       THEN Exec(blks, blks[b][k].tgt[1], 1, m, fuel - 1)
  ELSE IF blks[b][k].opc = "condbr"
       THEN Exec(blks,
                 IF ValueOf(m, blks[b][k].args[1]) = 1
                 THEN blks[b][k].tgt[1] ELSE blks[b][k].tgt[2],
                 1, m, fuel - 1)
  ELSE Exec(blks, b, k + 1, Step(m, blks[b][k]), fuel)

\* A call of the emitted function on a State whose registers R0, R1 and PC
\* hold r0, r1 and pc, with next_pc in the next-PC cell.
Cells(r0, r1, pc, next_pc) ==
  (RegPtr("R0") :> r0) @@ (RegPtr("R1") :> r1)
    @@ (RegPtr(kPCVariableName) :> pc)
    @@ (GetNextPcRef :> next_pc) @@ (GetBranchTakenRef :> 0)

Run(blks, cells) == Exec(blks, EntryBlock, 1, Machine(cells), MaxSteps)

(***************************************************************************)
(* Properties.                                                             *)
(***************************************************************************)
Last(seq) == seq[Len(seq)]

AllLifted(log) == \A k \in 1..Len(log) : log[k] = kLiftedInstruction

\* The internal lift has returned a function.
Returned == phase = "internal_done" /\ ret.has_func

\* C1: the status is Lifted at the start, stays non-Lifted once any op
\* lowering or the branch-taken emission has returned a non-Lifted status, and
\* the status lift returns is Lifted iff every one of them returned Lifted.
C1_StatusSticky ==
  /\ phase = "lifting" => (status = kLiftedInstruction <=> AllLifted(status_log))
  /\ Returned => (ret.status = kLiftedInstruction <=> AllLifted(status_log))

\* A failure followed by a success, and a non-Lifted return.
C1_Witness ==
  /\ Returned
  /\ Len(status_log) >= 2
  /\ status_log[1] # kLiftedInstruction
  /\ Last(status_log) = kLiftedInstruction
  /\ ret.status # kLiftedInstruction

RECURSIVE FirstNonLifted(_)
FirstNonLifted(log) ==
  IF log = <<>> THEN kLiftedInstruction
  ELSE IF Head(log) # kLiftedInstruction THEN Head(log)
  ELSE FirstNonLifted(Tail(log))

\* C2: when several lowerings of one instruction fail, lift returns the first
\* non-Lifted status that was produced.
C2_FirstFailureRetained ==
  Returned => ret.status = FirstNonLifted(status_log)

\* C3: once lift has returned a function, each of its blocks ends with a
\* terminator.
C3_BlocksTerminated ==
  Returned => \A b \in 1..Len(blocks) : HasTerminator(blocks[b])

\* A function with a continuation block whose last op failed.
C3_Witness ==
  /\ Returned
  /\ Len(blocks) >= 3
  /\ status_log # <<>>
  /\ Last(status_log) # kLiftedInstruction

TerminatorsOf(blks) ==
  {bk \in UNION {{<<b, k>> : k \in 1..Len(blks[b])} : b \in 1..Len(blks)} :
     IsTerminator(blks[bk[1]][bk[2]])}

Successors(blks, b) ==
  UNION {{blks[b][k].tgt[t] : t \in 1..Len(blks[b][k].tgt)} :
           k \in {j \in 1..Len(blks[b]) : IsTerminator(blks[b][j])}}

RECURSIVE ReachesExit(_, _, _)
ReachesExit(blks, b, fuel) ==
  \/ b = ExitBlock
  \/ /\ fuel > 0
     /\ Successors(blks, b) # {}
     /\ \A n \in Successors(blks, b) : ReachesExit(blks, n, fuel - 1)

\* C4: every path from the entry block reaches the exit block; the exit block
\* alone returns, and returns the memory pointer loaded from MEMORY; branches
\* go to the exit block or to a continuation block only.
C4_PathsReachExit ==
  Returned =>
    /\ ReachesExit(blocks, EntryBlock, Len(blocks))
    /\ \A bk \in TerminatorsOf(blocks) :
         LET t == blocks[bk[1]][bk[2]]
         IN /\ t.opc = "ret" <=> bk[1] = ExitBlock
            /\ \A n \in 1..Len(t.tgt) :
                 t.tgt[n] \in (1..Len(blocks)) \ {EntryBlock}
    /\ Len(blocks[ExitBlock]) = 2
    /\ blocks[ExitBlock][1].opc = "load"
    /\ blocks[ExitBlock][1].ptr = AllocaPtr(kMemoryVariableName, 0, PtrTy)
    /\ blocks[ExitBlock][2].opc = "ret"
    /\ blocks[ExitBlock][2].args =
         <<InstV(blocks[ExitBlock][1].id, PtrTy)>>

\* Two conditional branches, lifted without a failure.
C4_Witness ==
  /\ Returned
  /\ Len(blocks) >= 4
  /\ ret.status = kLiftedInstruction

ControlFlowOpCodes ==
  {"CPUI_BRANCH", "CPUI_CALL", "CPUI_BRANCHIND", "CPUI_CALLIND",
   "CPUI_RETURN", "CPUI_CBRANCH"}

NoControlFlowOp(ops) ==
  \A k \in 1..Len(ops) : ops[k].op \notin ControlFlowOpCodes

\* C5 as stated: without a control-flow op the function has exactly one
\* terminator.
C5_OneTerminator ==
  Returned /\ NoControlFlowOp(pcode) =>
    Cardinality(TerminatorsOf(blocks)) = 1

\* C5: without a control-flow op the function has exactly two terminators,
\* the branch to the exit block that ends the entry block and the exit
\* block's return, and no other block.
C5_TwoTerminators ==
  Returned /\ NoControlFlowOp(pcode) =>
    /\ Len(blocks) = 2
    /\ TerminatorsOf(blocks) =
         {<<EntryBlock, Len(blocks[EntryBlock])>>,
          <<ExitBlock, Len(blocks[ExitBlock])>>}
    /\ Last(blocks[EntryBlock]).opc = "br"
    /\ Last(blocks[EntryBlock]).tgt = <<ExitBlock>>
    /\ Last(blocks[ExitBlock]).opc = "ret"

\* Two ops without control flow have been lifted.
C5_Witness ==
  /\ Returned
  /\ NoControlFlowOp(pcode)
  /\ Len(pcode) >= 2
  /\ ret.status = kLiftedInstruction

FloatOpCodes ==
  {"CPUI_FLOAT_EQUAL", "CPUI_FLOAT_NOTEQUAL", "CPUI_FLOAT_LESS",
   "CPUI_FLOAT_LESSEQUAL", "CPUI_FLOAT_NAN", "CPUI_FLOAT_ADD",
   "CPUI_FLOAT_DIV", "CPUI_FLOAT_MULT", "CPUI_FLOAT_SUB", "CPUI_FLOAT_NEG",
   "CPUI_FLOAT_ABS", "CPUI_FLOAT_SQRT", "CPUI_FLOAT_INT2FLOAT",
   "CPUI_FLOAT_FLOAT2FLOAT", "CPUI_FLOAT_TRUNC", "CPUI_FLOAT_CEIL",
   "CPUI_FLOAT_FLOOR", "CPUI_FLOAT_ROUND"}

\* C6: a float op anywhere in the decoded p-code makes the internal lift
\* return Unsupported with no function, before any op is lowered; without one
\* a function is returned.
C6_FloatScreen ==
  phase = "internal_done" =>
    IF \E k \in 1..Len(pcode) : pcode[k].op \in FloatOpCodes
    THEN /\ ret = [status |-> kLiftedUnsupportedInstruction,
                   has_func |-> FALSE]
         /\ blocks = <<>>
         /\ status_log = <<>>
    ELSE ret.has_func

\* A float op that is not the first op of the instruction.
C6_Witness ==
  /\ phase = "internal_done"
  /\ ~ret.has_func
  /\ Len(pcode) >= 2
  /\ pcode[1].op \notin FloatOpCodes
  /\ Last(pcode).op = "CPUI_FLOAT_EQUAL"

\* C7: between lifts and when the first op of a lift is about to be lowered,
\* both partitions of the scratch arena and the claim context are empty.
C7_FreshArenaAndClaims ==
  /\ phase = "idle" => ArenaAndClaimsEmpty
  /\ phase = "lifting" /\ curr_id = 0 => ArenaAndClaimsEmpty

\* A lift starts after an earlier lift recorded a scratch cell or a claim.
C7_Witness ==
  /\ phase = "lifting"
  /\ curr_id = 0
  /\ Len(pcode) > 0
  /\ "scratch" \in earlier

RECURSIVE DumpAll(_, _, _)
DumpAll(L, ops, k) ==
  IF k > Len(ops) THEN L ELSE DumpAll(dump(L, ops[k]), ops, k + 1)

\* The status and the function a finished lifter returns.
Outcome(L) == [status |-> L.status, has_func |-> TRUE, blocks |-> L.blocks]

\* What a lifter that has lifted nothing before makes of (i, bt).
FirstLift(i, bt) ==
  LET ops == oneInstruction(InitialSleighContext, i).ops
  IN IF HasFloatOp(ops)
     THEN [status |-> kLiftedUnsupportedInstruction, has_func |-> FALSE,
           blocks |-> <<>>]
     ELSE Outcome(TerminateBlock(
                    DumpAll(NewLifter(DefineInstructionFunction,
                                      UserOpNames, bt), ops, 1)))

\* C8: whatever was lifted before, the status and the IR of a lift are those
\* of the first lift of the same instruction and branch-taken descriptor.
C8_HistoryIndependent ==
  phase = "internal_done" =>
    [status |-> ret.status, has_func |-> ret.has_func, blocks |-> blocks]
      = FirstLift(inst, btaken)

\* An instruction lifted after lifts that changed the decoder context at its
\* address and recorded scratch cells.
C8_Witness ==
  /\ Returned
  /\ earlier = {"scratch", "context"}
  /\ inst.pc = 1
  /\ Len(pcode) > 0

\* C9: after an op with an output varnode of S bytes has been lowered with
\* status Lifted, the value stored through the output location is 8*S bits
\* wide.
C9_StoredWidth ==
  (/\ phase = "lifting"
   /\ curr_id >= 1
   /\ status_log # <<>>
   /\ Last(status_log) = kLiftedInstruction
   /\ pcode[curr_id].outvar # NoVar)
  => LET out == pcode[curr_id].outvar
         blk == blocks[target_block]
         n == Len(blk)
     IN IF out.space = "ram"
        THEN /\ n >= 2
             /\ blk[n - 1].opc = "write_memory"
             /\ blk[n - 1].args[3].ty = 8 * out.size
        ELSE /\ n >= 1
             /\ blk[n].opc = "store"
             /\ blk[n].args[1].ty = 8 * out.size

IsClaimEq(op) ==
  /\ op.op = "CPUI_CALLOTHER"
  /\ Len(op.vars) = 3
  /\ op.vars[1].offset < Len(UserOpNames)
  /\ UserOpNames[op.vars[1].offset + 1] = "claim_eq"

\* The dump step that lowers a three-input claim_eq.
ClaimEqStep ==
  /\ phase = "lifting"
  /\ curr_id < Len(pcode)
  /\ curr_id' = curr_id + 1
  /\ IsClaimEq(pcode[curr_id + 1])

\* The IR the step's op lowering appended to the current block, after the
\* branch-taken emission of the same step.
AppendedByOp ==
  LET base == LiftBtakenIfReached(Lifter, target_block).blocks[target_block]
  IN SubSeq(blocks'[target_block], Len(base) + 1,
            Len(blocks'[target_block]))

OtherIRUnchanged ==
  LET base == LiftBtakenIfReached(Lifter, target_block).blocks
  IN /\ Len(blocks') = Len(base)
     /\ \A b \in 1..Len(base) : b # target_block => blocks'[b] = base[b]
     /\ SubSeq(blocks'[target_block], 1, Len(base[target_block]))
          = base[target_block]

\* C10: lowering a three-input claim_eq returns Lifted and appends no IR
\* instruction to the function, whatever the space of its value varnode.
C10_NoIR ==
  [][ClaimEqStep =>
       /\ Last(status_log') = kLiftedInstruction
       /\ OtherIRUnchanged
       /\ AppendedByOp = <<>>]_vars

\* The lift has returned the function of claim_eq(const c, R1) followed by a
\* direct BRANCH whose input is `target`, c being target's offset.
ClaimThenBranch(target) ==
  /\ Returned
  /\ pcode = <<ClaimEq(Const(target.offset, 4), R1(4)),
               PcodeOp("CPUI_BRANCH", NoVar, <<target>>)>>

\* The next-PC cell after a call of the emitted function with r1 in R1.
NextPcAfter(r1) == Run(blocks, Cells(5, r1, 100, 104)).cells[GetNextPcRef]

\* C11 as stated: after claim_eq(const c, R1), a BRANCH whose target is
\* const(c) is Lifted, and the emitted function stores the run-time value of
\* R1, not the literal c, into the next-PC cell.
C11_ClaimedConstBranch ==
  ClaimThenBranch(Const(16, 4)) =>
    /\ ret.status = kLiftedInstruction
    /\ \A r1 \in {3, 16384} : NextPcAfter(r1) = r1

\* C11: after claim_eq(const c, R1), a BRANCH whose target is the offset c in
\* a space other than the constant space is Lifted, and the emitted function
\* stores the run-time value of R1, not the literal c, into the next-PC cell.
C11_ClaimedBranch ==
  ClaimThenBranch(Ram(16, 4)) =>
    /\ ret.status = kLiftedInstruction
    /\ \A r1 \in {3, 16384} : NextPcAfter(r1) = r1

C11_Witness ==
  /\ ClaimThenBranch(Ram(16, 4))
  /\ ret.status = kLiftedInstruction
  /\ NextPcAfter(16384) = 16384

\* The lift has returned the function of a p-code sequence whose op k is
\* CBRANCH(ram:16, R1 as one byte) and which has no other control-flow op.
OnlyCBranchAt(k) ==
  /\ Returned
  /\ k \in 1..Len(pcode)
  /\ pcode[k] = PcodeOp("CPUI_CBRANCH", NoVar, <<Ram(16, 4), R1(1)>>)
  /\ \A j \in 1..Len(pcode) : j # k => pcode[j].op \notin ControlFlowOpCodes

\* The emitted function called with r1 in R1, pc in PC and 104 in the
\* next-PC cell.
RunWith(r1, pc) == Run(blocks, Cells(5, r1, pc, 104))

PieceLifted ==
  /\ Returned
  /\ pcode = <<PcodeOp("CPUI_PIECE", R0(2), <<R1(1), R0(1)>>)>>

\* C13: PIECE(hi, lo) with an output of hi.size + lo.size bytes is Lifted and
\* the emitted function writes hi * 2^(8 * lo.size) + lo to the output: hi =
\* 0xAA and lo = 0xBB of one byte each give 0xAABB.
C13_PieceConcatenates ==
  PieceLifted =>
    /\ ret.status = kLiftedInstruction
    /\ WellTyped(blocks)
    /\ \A hi \in {1, 170}, lo \in {0, 187} :
         Wrap(Run(blocks, Cells(lo, hi, 100, 104)).cells[RegPtr("R0")], 16)
           = hi * Pow2(8) + lo

\* The stores to the next-PC cell among the function's instructions.
NextPcStores(blks) ==
  UNION {{blks[b][k].id : k \in {j \in 1..Len(blks[b]) :
                                   /\ blks[b][j].opc = "store"
                                   /\ blks[b][j].ptr = GetNextPcRef}} :
         b \in 1..Len(blks)}

\* A dump step: the lowering of op curr_id + 1.
DumpStep ==
  /\ phase = "lifting"
  /\ curr_id < Len(pcode)
  /\ curr_id' = curr_id + 1

\* C14: the function gets a store to the next-PC cell only in the lowering
\* of a BRANCH, CALL, BRANCHIND, CALLIND, RETURN or CBRANCH, and a call of a
\* function lifted from p-code with none of these leaves the next-PC cell as
\* it was.
C14_NextPcFrame ==
  /\ [][(DumpStep /\ pcode[curr_id + 1].op \notin ControlFlowOpCodes)
          => NextPcStores(blocks') = NextPcStores(blocks)]_vars
  /\ [][~DumpStep => NextPcStores(blocks') \subseteq NextPcStores(blocks)]_vars
  /\ [](Returned /\ NoControlFlowOp(pcode) =>
          \A next_pc \in {7, 104} :
            Run(blocks, Cells(5, 3, 100, next_pc)).cells[GetNextPcRef]
              = next_pc)

C14_Witness ==
  /\ Returned
  /\ NoControlFlowOp(pcode)
  /\ Len(pcode) >= 2
  /\ ret.status = kLiftedInstruction
  /\ btaken # NoBranchTaken
  /\ Run(blocks, Cells(5, 3, 100, 104)).cells[GetNextPcRef] = 104
  /\ Run(blocks, Cells(5, 3, 100, 104)).cells[RegPtr("R0")] = 3

\* C15: INT_LESSEQUAL is lowered with the unsigned predicate: the emitted
\* function writes 1 when a <= b as unsigned integers and 0 otherwise, so
\* a = 2^W - 1 and b = 0 give 0 (W = 8: a in R1, b and the output in R0).
C15_LessEqualUnsigned ==
  (Returned /\ pcode = <<PcodeOp("CPUI_INT_LESSEQUAL", R0(1),
                                 <<R1(1), R0(1)>>)>>) =>
    /\ ret.status = kLiftedInstruction
    /\ \A a \in {0, 1, 255}, b \in {0, 255} :
         Wrap(Run(blocks, Cells(b, a, 100, 104)).cells[RegPtr("R0")], 8)
           = BoolInt(a <= b)

\* C16: the lowering of an op that is not a claim_eq leaves no pending
\* claim: a claim can affect at most the first op after it that is not a
\* claim.
C16_ClaimsDiscarded ==
  [][(DumpStep /\ ~IsClaimEq(pcode[curr_id + 1]) /\ phase' = "lifting")
       => (current_replacements' = EmptyMap /\ used_values' = {})]_vars

\* C17: a claim is consumed at most once: once a claimed offset has been
\* resolved to its substitute, a later resolution of the same offset in the
\* same lift gets the literal.  After claim_eq(const 16, R1), the sum of
\* const 16 and const 16 is the value of R1 plus 16.
C17_ConsumedOnce ==
  (Returned /\ pcode = <<ClaimEq(Const(16, 4), R1(4)),
                         PcodeOp("CPUI_INT_ADD", R0(4),
                                 <<Const(16, 4), Const(16, 4)>>)>>) =>
    /\ ret.status = kLiftedInstruction
    /\ \A r1 \in {3, 100} :
         Run(blocks, Cells(5, r1, 100, 104)).cells[RegPtr("R0")] = r1 + 16

\* C18: after claim_eq(c, v) has been lowered the claim context maps the
\* offset of c to the location of v, whatever was lowered before it in the
\* same instruction, an earlier claim_eq of another value for c included.
C18_ClaimRecorded ==
  [][(ClaimEqStep /\ phase' = "lifting") =>
       /\ pcode[curr_id + 1].vars[2].offset \in DOMAIN current_replacements'
       /\ current_replacements'[pcode[curr_id + 1].vars[2].offset]
            = LiftParamPtr(LiftBtakenIfReached(Lifter, target_block),
                           target_block, pcode[curr_id + 1].vars[3]).p]_vars

\* A CALLOTHER that is no well-formed claim_eq: it has no inputs, or its
\* first input's offset is no index into the user-op names, or the name at
\* that index is not claim_eq, or the name is claim_eq and the inputs are
\* not three.
RejectedCallOther(op) ==
  /\ op.op = "CPUI_CALLOTHER"
  /\ \/ Len(op.vars) = 0
     \/ op.vars[1].offset >= Len(user_op_names)
     \/ user_op_names[op.vars[1].offset + 1] # kEqualityClaimName
     \/ Len(op.vars) # 3

\* C19: the lowering of such a CALLOTHER returns Unsupported and leaves the
\* claim context as it was.
C19_CallOtherRejected ==
  [][(DumpStep /\ RejectedCallOther(pcode[curr_id + 1])) =>
       /\ Last(status_log') = kLiftedUnsupportedInstruction
       /\ current_replacements' = current_replacements
       /\ used_values' = used_values]_vars

C19_Witness ==
  /\ phase = "lifting"
  /\ curr_id = 2
  /\ RejectedCallOther(pcode[2])
  /\ Len(pcode[2].vars) = 3
  /\ current_replacements # EmptyMap
  /\ Last(status_log) = kLiftedUnsupportedInstruction

\* A direct BRANCH or CALL whose input is in the constant space.
IsConstantBranch(op) ==
  /\ op.op \in {"CPUI_BRANCH", "CPUI_CALL"}
  /\ Len(op.vars) = 1
  /\ op.vars[1].space = "const"

TerminatorCount(blk) ==
  Cardinality({k \in 1..Len(blk) : IsTerminator(blk[k])})

\* C20: the lowering of a direct BRANCH or CALL whose input is in the
\* constant space returns Unsupported, adds no store to the next-PC cell and
\* no terminator to the current block and consumes no claim, a claim pending
\* for the input's offset included.
C20_ConstantBranchRejected ==
  [][(DumpStep /\ IsConstantBranch(pcode[curr_id + 1])) =>
       /\ Last(status_log') = kLiftedUnsupportedInstruction
       /\ NextPcStores(blocks') = NextPcStores(blocks)
       /\ target_block' = target_block
       /\ TerminatorCount(blocks'[target_block])
            = TerminatorCount(blocks[target_block])
       /\ current_replacements' = current_replacements
       /\ used_values' = used_values]_vars

C20_Witness ==
  /\ phase = "lifting"
  /\ curr_id = 2
  /\ IsConstantBranch(pcode[2])
  /\ pcode[2].vars[1].offset \in DOMAIN current_replacements
  /\ used_values = {}
  /\ Last(status_log) = kLiftedUnsupportedInstruction
  /\ NextPcStores(blocks) = {}

\* C21: when the lowering of an op returns Unsupported, the emitted IR, the
\* scratch arena and the claim context are as they were before that op was
\* lowered (after the branch-taken emission of the same dump call).
C21_UnsupportedFrame ==
  [][(DumpStep /\ phase' = "lifting"
        /\ Last(status_log') = kLiftedUnsupportedInstruction) =>
       /\ blocks' = LiftBtakenIfReached(Lifter, target_block).blocks
       /\ target_block' = target_block
       /\ uniques' = LiftBtakenIfReached(Lifter, target_block).uniques
       /\ unknown_regs'
            = LiftBtakenIfReached(Lifter, target_block).unknown_regs
       /\ current_replacements'
            = LiftBtakenIfReached(Lifter, target_block).current_replacements
       /\ used_values'
            = LiftBtakenIfReached(Lifter, target_block).used_values]_vars

\* The stores to the branch-taken cell among the function's instructions.
BranchTakenStores(blks) ==
  UNION {{blks[b][k].id : k \in {j \in 1..Len(blks[b]) :
                                   /\ blks[b][j].opc = "store"
                                   /\ blks[b][j].ptr = GetBranchTakenRef}} :
         b \in 1..Len(blks)}

\* The dump step has put one store to the branch-taken cell into the current
\* block, behind everything the block held and separated from it by the read
\* of the descriptor's varnode only.
BranchTakenFirst ==
  \E n \in (Len(blocks[target_block]) + 1)..Len(blocks'[target_block]) :
    /\ blocks'[target_block][n].opc = "store"
    /\ blocks'[target_block][n].ptr = GetBranchTakenRef
    /\ BranchTakenStores(blocks')
         = BranchTakenStores(blocks) \cup {blocks'[target_block][n].id}
    /\ blocks'[target_block][n].id \notin BranchTakenStores(blocks)
    /\ SubSeq(blocks'[target_block], 1, Len(blocks[target_block]))
         = blocks[target_block]
    /\ \A j \in (Len(blocks[target_block]) + 1)..(n - 1) :
         blocks'[target_block][j].opc \in
           {"load", "read_memory", "zext", "trunc"}

\* The dump step is the one the branch-taken descriptor names.
BranchTakenReached ==
  DumpStep /\ to_lift_btaken.has /\ curr_id = to_lift_btaken.index

\* A varnode the lifter can read as an integer of its own size.
CanReadInteger(vn) == vn.space = "ram" => MemTypeSupported(vn.size * 8)

\* C22 as stated: with a descriptor (k, v) and N ops the function has exactly
\* one store to the branch-taken cell when k < N, emitted in the dump of op k
\* behind all earlier IR and before the IR of op k, and none when there is no
\* descriptor or k >= N; no other step adds such a store.
C22_BranchTakenOnce ==
  /\ [](Returned =>
          Cardinality(BranchTakenStores(blocks))
            = (IF btaken.has /\ btaken.index < Len(pcode) THEN 1 ELSE 0))
  /\ [][BranchTakenReached => BranchTakenFirst]_vars
  /\ [][(DumpStep /\ ~BranchTakenReached) =>
          BranchTakenStores(blocks') = BranchTakenStores(blocks)]_vars

\* C22: the same, for a descriptor whose varnode can be read as an integer;
\* when the read fails the dump of op k adds no store either.
C22_BranchTakenOnceIfRead ==
  /\ [](Returned =>
          Cardinality(BranchTakenStores(blocks))
            = (IF /\ btaken.has
                  /\ btaken.index < Len(pcode)
                  /\ CanReadInteger(btaken.target_vnode)
               THEN 1 ELSE 0))
  /\ [][(BranchTakenReached /\ CanReadInteger(to_lift_btaken.target_vnode))
          => BranchTakenFirst]_vars
  /\ [][(DumpStep /\ ~(BranchTakenReached
                        /\ CanReadInteger(to_lift_btaken.target_vnode))) =>
          BranchTakenStores(blocks') = BranchTakenStores(blocks)]_vars

C22_Witness ==
  /\ Returned
  /\ btaken.has
  /\ btaken.index = 1
  /\ CanReadInteger(btaken.target_vnode)
  /\ Len(pcode) = 3
  /\ pcode[1].op = "CPUI_CBRANCH"
  /\ ret.status = kLiftedInstruction
  /\ Cardinality(BranchTakenStores(blocks)) = 1

\* The dump step lowers a CBRANCH with status Lifted.
CBranchLiftedStep ==
  /\ DumpStep
  /\ pcode[curr_id + 1].op = "CPUI_CBRANCH"
  /\ Last(status_log') = kLiftedInstruction

\* C23: a CBRANCH lowered with status Lifted creates exactly one block, the
\* continuation, ends the block that was current with a conditional branch
\* to the exit block on true and to the continuation on false, and makes the
\* continuation current; every dump step emits into the block that is
\* current or into a new one, and a block that has been split is never
\* current again.
C23_ContinuationBlock ==
  /\ [][CBranchLiftedStep =>
          /\ Len(blocks') = Len(blocks) + 1
          /\ target_block' = Len(blocks')
          /\ blocks'[target_block'] = <<>>
          /\ Last(blocks'[target_block]).opc = "condbr"
          /\ Last(blocks'[target_block]).tgt = <<exit_block, target_block'>>
          /\ TerminatorCount(blocks'[target_block])
               = TerminatorCount(blocks[target_block]) + 1]_vars
  /\ [][DumpStep =>
          /\ Len(blocks') >= Len(blocks)
          /\ \A b \in 1..Len(blocks) :
               b # target_block => blocks'[b] = blocks[b]]_vars
  /\ [](phase = "lifting" =>
          \A k \in 1..Len(blocks[target_block]) :
            blocks[target_block][k].opc # "condbr")

C23_Witness ==
  /\ Returned
  /\ Len(pcode) = 2
  /\ pcode[1].op = "CPUI_CBRANCH"
  /\ pcode[2].op = "CPUI_COPY"
  /\ status_log = <<kLiftedInstruction, kLiftedInstruction>>
  /\ Len(blocks) = 3
  /\ Last(blocks[EntryBlock]).opc = "condbr"
  /\ Len(blocks[3]) > 1

\* The alloca instructions of pointer p, and those of a scratch partition.
AllocasOf(blks, p) ==
  UNION {{blks[b][k].id : k \in {j \in 1..Len(blks[b]) :
                                   /\ blks[b][j].opc = "alloca"
                                   /\ blks[b][j].ptr = p}} :
         b \in 1..Len(blks)}

AllocasIn(blks, part) ==
  UNION {{blks[b][k].id : k \in {j \in 1..Len(blks[b]) :
                                   /\ blks[b][j].opc = "alloca"
                                   /\ blks[b][j].ptr.name = part}} :
         b \in 1..Len(blks)}

\* Every offset of the partition `cached` has one cell, allocated once, and
\* the partition has no other cell.
OneCellPerOffset(cached, part) ==
  /\ \A o \in DOMAIN cached :
       /\ cached[o].name = part
       /\ cached[o].n = o
       /\ Cardinality(AllocasOf(blocks, cached[o])) = 1
  /\ Cardinality(AllocasIn(blocks, part)) = Cardinality(DOMAIN cached)

\* The varnodes of an op in the order they are resolved, and the size of the
\* first of them that names offset o of `space`.
RefsOf(op) == op.vars \o <<op.outvar>>

FirstRefSize(op, space, o) ==
  RefsOf(op)[CHOOSE k \in 1..Len(RefsOf(op)) :
               /\ RefsOf(op)[k].space = space
               /\ RefsOf(op)[k].offset = o
               /\ \A j \in 1..(k - 1) :
                    ~(RefsOf(op)[j].space = space
                      /\ RefsOf(op)[j].offset = o)].size

\* A dump step keeps the cells of `cached` and gives each new offset a cell
\* of 8 times the size of its first reference.
CellsKept(cached, cached_next, space) ==
  /\ \A o \in DOMAIN cached :
       o \in DOMAIN cached_next /\ cached_next[o] = cached[o]
  /\ \A o \in DOMAIN cached_next \ DOMAIN cached :
       cached_next[o].bits = 8 * FirstRefSize(pcode[curr_id + 1], space, o)

\* C24: within one lift each offset of a scratch partition has exactly one
\* backing cell, allocated once at the first reference to the offset with
\* width 8 * size of that reference; later references get the same cell and
\* allocate nothing, whatever their size; the unique partition and the
\* unknown-register partition share no cell.
C24_OneCellPerOffset ==
  /\ [](phase = "lifting" =>
          /\ OneCellPerOffset(uniques, "uniques")
          /\ OneCellPerOffset(unknown_regs, "unknown_regs")
          /\ \A o \in DOMAIN uniques : \A r \in DOMAIN unknown_regs :
               uniques[o] # unknown_regs[r])
  /\ [][DumpStep =>
          /\ CellsKept(uniques, uniques', "unique")
          /\ CellsKept(unknown_regs, unknown_regs', "register")]_vars

C24_Witness ==
  /\ phase = "lifting"
  /\ curr_id = 3
  /\ pcode[1] = PcodeOp("CPUI_COPY", Unique(0, 1), <<R1(1)>>)
  /\ pcode[2] = PcodeOp("CPUI_COPY", R0(4), <<Unique(0, 4)>>)
  /\ pcode[3] = PcodeOp("CPUI_COPY", Unique(3, 4), <<UnknownReg(4)>>)
  /\ DOMAIN uniques = {0, 3}
  /\ DOMAIN unknown_regs = {3}
  /\ uniques[0].bits = 8
  /\ Cardinality(AllocasIn(blocks, "uniques")) = 2

\* A machine that also keeps the memory values the intrinsics were passed:
\* the memory argument is 0 and the k-th write_memory run returns k.
MemMachine(cells) ==
  [cells |-> cells, vals |-> [i \in {} |-> 0], exit_from |-> 0,
   defined |-> TRUE, trace |-> <<>>, writes |-> 0, returned |-> 0 - 1]

MemEvent(kind, mem) == [kind |-> kind, mem |-> mem]

\* One instruction run on such a machine; memory holds zeros.
MemStep(m, i) ==
  CASE i.opc = "read_memory" ->
         [SetVal(m, i, 0) EXCEPT
            !.trace = Append(@, MemEvent("read", ValueOf(m, i.args[1])))]
    [] i.opc = "write_memory" ->
         [SetVal(m, i, m.writes + 1) EXCEPT
            !.writes = @ + 1,
            !.trace = Append(@, MemEvent("write", ValueOf(m, i.args[1])))]
    [] OTHER -> Step(m, i)

RECURSIVE MemExec(_, _, _, _, _)
MemExec(blks, b, k, m, fuel) ==
  IF k > Len(blks[b]) \/ fuel = 0 THEN m
  ELSE IF blks[b][k].opc = "ret"
       THEN [m EXCEPT !.exit_from = b,
                      !.returned = ValueOf(m, blks[b][k].args[1])]
  ELSE IF blks[b][k].opc = "br"
       THEN MemExec(blks, blks[b][k].tgt[1], 1, m, fuel - 1)
  ELSE IF blks[b][k].opc = "condbr"
       THEN MemExec(blks,
                    IF ValueOf(m, blks[b][k].args[1]) = 1
                    THEN blks[b][k].tgt[1] ELSE blks[b][k].tgt[2],
                    1, m, fuel - 1)
  ELSE MemExec(blks, b, k + 1, MemStep(m, blks[b][k]), fuel)

\* The function called with r1 in R1.
MemRun(blks, r1) ==
  MemExec(blks, EntryBlock, 1, MemMachine(Cells(5, r1, 100, 104)), MaxSteps)

WritesBefore(trace, j) ==
  Cardinality({i \in 1..(j - 1) : trace[i].kind = "write"})

\* Every intrinsic is passed the value of the most recent write, or the
\* memory argument when there was none, and the function returns the value
\* of the last write.
Threaded(m) ==
  /\ m.exit_from = ExitBlock
  /\ \A j \in 1..Len(m.trace) : m.trace[j].mem = WritesBefore(m.trace, j)
  /\ m.returned = m.writes

\* C25: in a call of the emitted function the first memory write is passed
\* the function's memory argument, each later write the value the write
\* before it returned, each read the value of the most recent write before
\* it, and the function returns the value of the last write (the argument
\* when it wrote nothing).
C25_MemoryThreaded ==
  Returned => \A r1 \in {0, 1} : Threaded(MemRun(blocks, r1))

\* A write, a conditional branch not taken, and a store that reads memory
\* and writes it.
C25_Witness ==
  /\ Returned
  /\ Len(blocks) >= 3
  /\ MemRun(blocks, 0).writes = 2
  /\ \E j \in 1..Len(MemRun(blocks, 0).trace) :
       /\ MemRun(blocks, 0).trace[j].kind = "read"
       /\ MemRun(blocks, 0).trace[j].mem = 1

\* The lift has returned the function of the single op PTRSUB whose base is
\* R1, whose offset is the constant 5 and whose output is R0.
PtrSubLifted ==
  /\ Returned
  /\ pcode = <<PcodeOp("CPUI_PTRSUB", R0(4), <<R1(4), Const(5, 4)>>)>>

\* C26: PTRSUB with the two inputs base and offset and an output is Lifted,
\* and the emitted function writes base + offset to the output.
C26_PtrSubAdds ==
  PtrSubLifted =>
    /\ ret.status = kLiftedInstruction
    /\ \A base \in {0, 7} :
         Run(blocks, Cells(1, base, 100, 104)).cells[RegPtr("R0")] = base + 5

\* The positions of block blk that store through ptr.
StoresTo(blk, ptr) ==
  {k \in 1..Len(blk) : blk[k].opc = "store" /\ blk[k].ptr = ptr}

CallsIn(blk) ==
  {k \in 1..Len(blk) : blk[k].opc = "call_instruction_function"}

\* One store to PC, then one to NEXT_PC, then one call whose result is
\* stored to the memory-pointer reference.
UpdatedThenCalled(blk) ==
  \E p, n, c, m \in 1..Len(blk) :
    /\ p < n /\ n < c /\ c < m
    /\ StoresTo(blk, RegPtr(kPCVariableName)) = {p}
    /\ StoresTo(blk, RegPtr(kNextPCVariableName)) = {n}
    /\ CallsIn(blk) = {c}
    /\ StoresTo(blk, LoadRegAddress(kMemoryVariableName)) = {m}
    /\ blk[m].args[1].id = blk[c].id

\* A call of LiftIntoBlock that returns at once, and the return of one that
\* ran the internal lift.
ReturnsAtOnce == phase = "idle" /\ phase' = "idle"
ReturnsAfterLift == phase = "internal_done" /\ phase' = "idle"

\* C27: a call of LiftIntoBlock that returns a non-Lifted status appends
\* nothing to the caller's block; for an invalid instruction it decodes
\* nothing and creates no function; a call that returns Lifted appends the
\* store to PC, the store to NEXT_PC, the call and the store of its result
\* to the memory-pointer reference, in that order.
C27_CallerBlockFrame ==
  [][/\ ReturnsAtOnce =>
          /\ result' = kLiftedInvalidInstruction
          /\ caller_block' = <<>>
          /\ ret' = NoRet
          /\ UNCHANGED <<sleigh_context, earlier, pcode, blocks>>
     /\ ReturnsAfterLift =>
          IF result' = kLiftedInstruction
          THEN UpdatedThenCalled(caller_block')
          ELSE caller_block' = <<>>]_vars

\* A lift that returned Unsupported with a function, and appended nothing.
C27_Witness ==
  /\ phase = "idle"
  /\ result = kLiftedUnsupportedInstruction
  /\ ret.has_func
  /\ caller_block = <<>>

\* C28: no block of the emitted function has an instruction after a
\* terminator while ops are lowered, and once lift has returned each block
\* has exactly one terminator, its last instruction.
C28_OneTerminatorLast ==
  /\ (phase = "lifting" \/ Returned) =>
       \A b \in 1..Len(blocks) : \A k \in 1..Len(blocks[b]) :
         IsTerminator(blocks[b][k]) => k = Len(blocks[b])
  /\ Returned =>
       \A b \in 1..Len(blocks) :
         TerminatorCount(blocks[b]) = 1 /\ HasTerminator(blocks[b])

\* The width in bits of the access a load or a store makes.
AccessWidth(i) == IF i.opc = "load" THEN i.ty ELSE i.args[1].ty

\* The instruction loads from or stores to a cell of the scratch arena.
AccessesScratch(i) ==
  /\ i.opc \in {"load", "store"}
  /\ i.ptr.pk = "alloca"
  /\ i.ptr.name \in {"uniques", "unknown_regs"}

\* C29: every load and store of a scratch cell is at most as wide as the
\* cell, whose width is 8 times the size of the first reference to its
\* offset.
C29_AccessWithinCell ==
  \A b \in 1..Len(blocks) : \A k \in 1..Len(blocks[b]) :
    AccessesScratch(blocks[b][k]) =>
      AccessWidth(blocks[b][k]) <= blocks[b][k].ptr.bits

====
